---- MODULE Spec2Model ----
(***************************************************************************)
(* A model of mcp-azure-devops: the PAT connection provider                *)
(* (src/shared/auth.ts), the tool catalog and the dispatcher               *)
(* (src/server.ts) and the test-step markup generator convertStepsToXml.   *)
(*                                                                         *)
(* Strings that the code takes apart character by character are modelled   *)
(* as sequences of one-character strings; the organization URL is modelled *)
(* as the sequence of its "/"-separated parts (what url.split("/") gives). *)
(* JavaScript values that flow into lookups are tagged records (JsNum,     *)
(* JsStr, JsUndef, JsFn).                                                  *)
(***************************************************************************)
EXTENDS Integers, Sequences, FiniteSets, TLC

VARIABLES
    config,         \* the AuthConfig / ServerConfig in use
    clientPromise,  \* AzureDevOpsClient.clientPromise
    constructions,  \* how many times createPatClient has been invoked
    callers,        \* SpecClient: position and result of each getWebApiClient caller
    server,         \* "none", "created" or "threw": the outcome of createServer
    orgName,        \* the module-level variable orgName of server.ts
    inv,            \* the tool invocation the CallTool handler is working on
    served,         \* number of invocations answered so far
    prev,           \* what the previous invocation ended with
    page,           \* the wiki page on the service, while an upsert of it is going on
    buffered,       \* chunks the artifact's write stream holds and has not yet put on disk
    steps,          \* SpecSteps: the input text of convertStepsToXml
    xml,            \* SpecSteps: its output
    pat,            \* SpecAuth: the token passed to getPatAuthHeader
    header,         \* SpecAuth: the header it returns
    proc,           \* the process started by index.ts: environment, output, exit
    listed,         \* what the latest ListTools request was answered with
    later,          \* the configurations of the servers created after the first
    input,          \* SpecEnum, SpecFormat: the arguments of the utility function
    output          \* SpecEnum, SpecFormat: what it returned

vars == <<config, clientPromise, constructions, callers, server, orgName, inv,
          served, prev, page, buffered, steps, xml, pat, header,
          proc, listed, later, input, output>>

clientVars == <<config, clientPromise, constructions, callers>>
serverVars == <<server, orgName, inv, served, prev>>
stepsVars == <<steps, xml>>
worldVars == <<page, buffered>>
authVars == <<pat, header>>
procVars == <<proc, listed, later>>
utilVars == <<input, output>>

----------------------------------------------------------------------------
(* Bounds *)

NumCallers == 3
MaxCallsPerCaller == 2
MaxInvocations == 2
MaxItems == 3
MaxLen == 5
MaxEscLen == 4
MaxFetched == 3
MaxVersion == 2
MaxChunks == 1
MaxPatLen == 3
MaxLaterServers == 1
MaxValues == 2
MaxValueLen == 3

----------------------------------------------------------------------------
(* JavaScript values *)

JsUndef == [t |-> "undefined", n |-> 0, s |-> ""]
JsFn == [t |-> "function", n |-> 0, s |-> ""]
JsNum(n) == [t |-> "number", n |-> n, s |-> ""]
JsStr(s) == [t |-> "string", n |-> 0, s |-> s]

Truthy(v) ==
    CASE v.t = "undefined" -> FALSE
      [] v.t = "number" -> v.n # 0
      [] v.t = "string" -> v.s # ""
      [] OTHER -> TRUE

\* a || b
JsOr(a, b) == IF Truthy(a) THEN a ELSE b

\* a destructuring default: { x = d } = args
JsDefault(v, d) == IF v = JsUndef THEN d ELSE v

\* String.prototype.includes
Includes(cs, part) ==
    \E i \in 0 .. (Len(cs) - Len(part)) : SubSeq(cs, i + 1, i + Len(part)) = part

\* property names every object literal inherits from Object.prototype
ObjectPrototypeKeys == {"constructor", "toString", "valueOf", "hasOwnProperty"}

\* table[key] for an object literal table with numeric values
JsLookup(table, key) ==
    CASE key.t = "string" /\ key.s \in DOMAIN table -> JsNum(table[key.s])
      [] key.t = "string" /\ key.s \in ObjectPrototypeKeys -> JsFn
      [] OTHER -> JsUndef

----------------------------------------------------------------------------
(* src/shared/auth.ts *)

EmptyUrl == <<"">>
Urls == {EmptyUrl,
         <<"https:", "", "dev.azure.com", "org1">>,
         <<"https:", "", "dev.azure.com", "org2", "">>}
Pats == {"", "pat1"}
Configs == [organizationUrl : Urls, personalAccessToken : Pats]
NoConfig == [organizationUrl |-> EmptyUrl, personalAccessToken |-> ""]

NoPromise == [state |-> "null", id |-> 0, serverUrl |-> EmptyUrl, message |-> ""]
Fulfilled(id, url) == [state |-> "fulfilled", id |-> id, serverUrl |-> url, message |-> ""]
Rejected(id, m) == [state |-> "rejected", id |-> id, serverUrl |-> EmptyUrl, message |-> m]

\* createPatClient(config): the promise it returns; the function has no await,
\* so the promise is settled when it is returned. id names the WebApi object
\* (or the failure) this invocation made.
createPatClient(c, id) ==
    IF c.personalAccessToken = ""
    THEN Rejected(id, "Personal Access Token is required for authentication")
    ELSE IF c.organizationUrl = EmptyUrl
    THEN Rejected(id, "Organization URL is required")
    ELSE Fulfilled(id, c.organizationUrl)

\* the guard of getClient with the memoization lost
MustConstructAlways(p) == TRUE

\* the guard of getClient: if (!this.clientPromise)
MustConstruct(p) == p = NoPromise

\* AzureDevOpsClient.getClient, up to its return: the promise handed out
getClientPromise ==
    IF MustConstruct(clientPromise)
    THEN createPatClient(config, constructions + 1)
    ELSE clientPromise

getClientCount ==
    IF MustConstruct(clientPromise) THEN constructions + 1 ELSE constructions

Caller == 1 .. NumCallers
IdleCaller == [pc |-> "idle", awaiting |-> NoPromise, got |-> NoPromise, calls |-> 0]

\* a caller invokes getWebApiClient(): getClient runs to its return at once
GetWebApiClient(c) ==
    /\ callers[c].pc = "idle"
    /\ callers[c].calls < MaxCallsPerCaller
    /\ clientPromise' = getClientPromise
    /\ constructions' = getClientCount
    /\ callers' = [callers EXCEPT ![c] = [pc |-> "waiting", awaiting |-> clientPromise',
                                           got |-> @.got, calls |-> @.calls + 1]]
    /\ UNCHANGED <<config, serverVars, stepsVars, authVars, procVars, utilVars, worldVars>>

\* the caller's await resumes with what the promise settled to
Resume(c) ==
    /\ callers[c].pc = "waiting"
    /\ callers' = [callers EXCEPT ![c] = [pc |-> "done", awaiting |-> NoPromise,
                                           got |-> @.awaiting, calls |-> @.calls]]
    /\ UNCHANGED <<config, clientPromise, constructions, serverVars, stepsVars, authVars, procVars, utilVars, worldVars>>

\* the caller goes on and may call again later
CallAgain(c) ==
    /\ callers[c].pc = "done"
    /\ callers[c].calls < MaxCallsPerCaller
    /\ callers' = [callers EXCEPT ![c].pc = "idle"]
    /\ UNCHANGED <<config, clientPromise, constructions, serverVars, stepsVars, authVars, procVars, utilVars, worldVars>>

\* getPatAuthHeader. A string is the sequence of its UTF-16 code units; the
\* header is the piece "Basic " followed by the base64 characters.
CodeUnits == {"a", ":", "U+00E9", "U+D800", "U+FFFD"}

\* Buffer.from(string): the UTF-8 bytes of a code unit; a surrogate without
\* its other half is encoded as U+FFFD (no low surrogate is in CodeUnits)
Utf8Unit(u) ==
    CASE u = "a" -> <<97>>
      [] u = ":" -> <<58>>
      [] u = "U+00E9" -> <<195, 169>>
      [] u = "U+D800" -> <<239, 191, 189>>
      [] u = "U+FFFD" -> <<239, 191, 189>>

RECURSIVE Utf8(_)
Utf8(str) == IF str = <<>> THEN <<>> ELSE Utf8Unit(str[1]) \o Utf8(Tail(str))

Base64Chars ==
    <<"A", "B", "C", "D", "E", "F", "G", "H", "I", "J", "K", "L", "M", "N", "O", "P",
      "Q", "R", "S", "T", "U", "V", "W", "X", "Y", "Z", "a", "b", "c", "d", "e", "f",
      "g", "h", "i", "j", "k", "l", "m", "n", "o", "p", "q", "r", "s", "t", "u", "v",
      "w", "x", "y", "z", "0", "1", "2", "3", "4", "5", "6", "7", "8", "9", "+", "/">>

Base64Char(sextet) == Base64Chars[sextet + 1]

\* buffer.toString("base64")
RECURSIVE Base64(_)
Base64(bytes) ==
    CASE Len(bytes) = 0 -> <<>>
      [] Len(bytes) = 1 ->
            <<Base64Char(bytes[1] \div 4), Base64Char((bytes[1] % 4) * 16), "=", "=">>
      [] Len(bytes) = 2 ->
            <<Base64Char(bytes[1] \div 4),
              Base64Char((bytes[1] % 4) * 16 + bytes[2] \div 16),
              Base64Char((bytes[2] % 16) * 4), "=">>
      [] OTHER ->
            <<Base64Char(bytes[1] \div 4),
              Base64Char((bytes[1] % 4) * 16 + bytes[2] \div 16),
              Base64Char((bytes[2] % 16) * 4 + bytes[3] \div 64),
              Base64Char(bytes[3] % 64)>>
            \o Base64(SubSeq(bytes, 4, Len(bytes)))

getPatAuthHeaderNoColon(p) == <<"Basic ">> \o Base64(Utf8(p))

getPatAuthHeader(p) == <<"Basic ">> \o Base64(Utf8(<<":">> \o p))

\* a caller asks for the header of pat
GetPatAuthHeader ==
    /\ header = <<>>
    /\ header' = getPatAuthHeader(pat)
    /\ UNCHANGED <<pat, clientVars, serverVars, stepsVars, worldVars, procVars, utilVars>>

----------------------------------------------------------------------------
(* src/server.ts: createServer *)

Last(s) == s[Len(s)]

\* orgName = urlParts[urlParts.length - 1] || urlParts[urlParts.length - 2] || ""
OrgNameOf(urlParts) ==
    IF Last(urlParts) # "" THEN Last(urlParts)
    ELSE IF Len(urlParts) >= 2 /\ urlParts[Len(urlParts) - 1] # "" THEN urlParts[Len(urlParts) - 1]
    ELSE ""

----------------------------------------------------------------------------
(* src/server.ts: the tool catalog and the switch of handleToolCall *)

\* the names of the descriptors getAllToolDefinitions returns, in order
Catalog == <<
    "core_list_project_teams", "core_list_projects", "core_get_identity_ids",
    "repo_list_repos_by_project", "repo_get_repo_by_name_or_id", "repo_list_branches_by_repo",
    "repo_list_my_branches_by_repo", "repo_get_branch_by_name", "repo_create_branch",
    "repo_list_pull_requests_by_repo_or_project", "repo_get_pull_request_by_id",
    "repo_create_pull_request", "repo_update_pull_request",
    "repo_update_pull_request_reviewers", "repo_list_pull_request_threads",
    "repo_list_pull_request_thread_comments", "repo_create_pull_request_thread",
    "repo_update_pull_request_thread", "repo_reply_to_comment", "repo_search_commits",
    "repo_list_pull_requests_by_commits", "wit_get_work_item",
    "wit_get_work_items_batch_by_ids", "wit_create_work_item", "wit_update_work_item",
    "wit_update_work_items_batch", "wit_my_work_items", "wit_list_backlogs",
    "wit_list_backlog_work_items", "wit_list_work_item_comments", "wit_add_work_item_comment",
    "wit_list_work_item_revisions", "wit_get_work_items_for_iteration",
    "wit_add_child_work_items", "wit_work_items_link", "wit_work_item_unlink",
    "wit_link_work_item_to_pull_request", "wit_add_artifact_link", "wit_get_work_item_type",
    "wit_get_query", "wit_get_query_results_by_id", "pipelines_get_builds",
    "pipelines_get_build_changes", "pipelines_get_build_definitions",
    "pipelines_get_build_definition_revisions", "pipelines_get_build_log",
    "pipelines_get_build_log_by_id", "pipelines_get_build_status",
    "pipelines_update_build_stage", "pipelines_create_pipeline", "pipelines_get_run",
    "pipelines_list_runs", "pipelines_run_pipeline", "pipelines_list_artifacts",
    "pipelines_download_artifact", "wiki_list_wikis", "wiki_get_wiki", "wiki_list_pages",
    "wiki_get_page", "wiki_get_page_content", "wiki_create_or_update_page", "search_code",
    "search_wiki", "search_workitem", "testplan_list_test_plans", "testplan_create_test_plan",
    "testplan_list_test_suites", "testplan_create_test_suite", "testplan_list_test_cases",
    "testplan_create_test_case", "testplan_update_test_case_steps",
    "testplan_add_test_cases_to_suite", "testplan_show_test_results_from_build_id",
    "advsec_get_alerts", "advsec_get_alert_details", "work_list_team_iterations",
    "work_list_iterations", "work_create_iterations", "work_assign_iterations",
    "work_get_team_capacity", "work_update_team_capacity", "work_get_iteration_capacities"
>>

\* the case labels of handleToolCall's switch, in order
CaseLabels == <<
    "core_list_project_teams", "core_list_projects", "core_get_identity_ids",
    "repo_list_repos_by_project", "repo_get_repo_by_name_or_id", "repo_list_branches_by_repo",
    "repo_list_my_branches_by_repo", "repo_get_branch_by_name", "repo_create_branch",
    "repo_list_pull_requests_by_repo_or_project", "repo_get_pull_request_by_id",
    "repo_create_pull_request", "repo_update_pull_request",
    "repo_update_pull_request_reviewers", "repo_list_pull_request_threads",
    "repo_list_pull_request_thread_comments", "repo_create_pull_request_thread",
    "repo_update_pull_request_thread", "repo_reply_to_comment", "repo_search_commits",
    "repo_list_pull_requests_by_commits", "wit_get_work_item",
    "wit_get_work_items_batch_by_ids", "wit_create_work_item", "wit_update_work_item",
    "wit_update_work_items_batch", "wit_my_work_items", "wit_list_backlogs",
    "wit_list_backlog_work_items", "wit_list_work_item_comments", "wit_add_work_item_comment",
    "wit_list_work_item_revisions", "wit_get_work_items_for_iteration",
    "wit_add_child_work_items", "wit_work_items_link", "wit_work_item_unlink",
    "wit_link_work_item_to_pull_request", "wit_add_artifact_link", "wit_get_work_item_type",
    "wit_get_query", "wit_get_query_results_by_id", "pipelines_get_builds",
    "pipelines_get_build_changes", "pipelines_get_build_definitions",
    "pipelines_get_build_definition_revisions", "pipelines_get_build_log",
    "pipelines_get_build_log_by_id", "pipelines_get_build_status",
    "pipelines_update_build_stage", "pipelines_create_pipeline", "pipelines_get_run",
    "pipelines_list_runs", "pipelines_run_pipeline", "pipelines_list_artifacts",
    "pipelines_download_artifact", "wiki_list_wikis", "wiki_get_wiki", "wiki_list_pages",
    "wiki_get_page", "wiki_get_page_content", "wiki_create_or_update_page", "search_code",
    "search_wiki", "search_workitem", "testplan_list_test_plans", "testplan_create_test_plan",
    "testplan_list_test_suites", "testplan_create_test_suite", "testplan_list_test_cases",
    "testplan_create_test_case", "testplan_update_test_case_steps",
    "testplan_add_test_cases_to_suite", "testplan_show_test_results_from_build_id",
    "advsec_get_alerts", "advsec_get_alert_details", "work_list_team_iterations",
    "work_list_iterations", "work_create_iterations", "work_assign_iterations",
    "work_get_team_capacity", "work_update_team_capacity", "work_get_iteration_capacities"
>>

SeqRange(s) == {s[i] : i \in DOMAIN s}
CatalogNames == SeqRange(Catalog)

\* the switch with the last case missing
BranchMissingCase(name) ==
    IF \E i \in 1 .. (Len(CaseLabels) - 1) : CaseLabels[i] = name THEN name ELSE "default"

\* switch (name): the label of the first matching case, or "default"
Branch(name) ==
    IF \E i \in DOMAIN CaseLabels : CaseLabels[i] = name
    THEN CaseLabels[CHOOSE i \in DOMAIN CaseLabels :
                        /\ CaseLabels[i] = name
                        /\ \A j \in 1 .. (i - 1) : CaseLabels[j] # name]
    ELSE "default"

\* branches that use raw fetch and read the response with response.json()
FetchJsonBranches == {"core_get_identity_ids", "wiki_get_page"}
\* branches that use raw fetch and return response.text()
FetchTextBranches == {"pipelines_update_build_stage", "search_code", "search_wiki",
                      "search_workitem"}
\* branches that loop over a caller-supplied list
BulkBranches == {"wit_update_work_items_batch", "wit_add_child_work_items",
                 "work_create_iterations", "work_assign_iterations"}
\* branches that never ask the connection for an API object
NoApiBranches == FetchJsonBranches \cup FetchTextBranches \cup {"wiki_create_or_update_page"}

\* the SDK method awaited in the loop body of each bulk branch
BulkMethod ==
       "wit_update_work_items_batch" :> "updateWorkItem"
    @@ "wit_add_child_work_items" :> "updateWorkItem"
    @@ "work_create_iterations" :> "createOrUpdateClassificationNode"
    @@ "work_assign_iterations" :> "postTeamIteration"

\* the one SDK method awaited by each branch that makes a single SDK call
SdkMethod ==
       "core_list_project_teams" :> "getTeams"
    @@ "core_list_projects" :> "getProjects"
    @@ "repo_list_repos_by_project" :> "getRepositories"
    @@ "repo_get_repo_by_name_or_id" :> "getRepository"
    @@ "repo_list_branches_by_repo" :> "getRefs"
    @@ "repo_list_my_branches_by_repo" :> "getRefs"
    @@ "repo_get_branch_by_name" :> "getBranch"
    @@ "repo_get_pull_request_by_id" :> "getPullRequest"
    @@ "repo_create_pull_request" :> "createPullRequest"
    @@ "repo_update_pull_request" :> "updatePullRequest"
    @@ "repo_update_pull_request_reviewers" :> "createPullRequestReviewer"
    @@ "repo_list_pull_request_threads" :> "getThreads"
    @@ "repo_list_pull_request_thread_comments" :> "getComments"
    @@ "repo_create_pull_request_thread" :> "createThread"
    @@ "repo_update_pull_request_thread" :> "updateThread"
    @@ "repo_reply_to_comment" :> "createComment"
    @@ "repo_search_commits" :> "getCommits"
    @@ "repo_list_pull_requests_by_commits" :> "getPullRequestQuery"
    @@ "wit_get_work_item" :> "getWorkItem"
    @@ "wit_get_work_items_batch_by_ids" :> "getWorkItems"
    @@ "wit_create_work_item" :> "createWorkItem"
    @@ "wit_update_work_item" :> "updateWorkItem"
    @@ "wit_my_work_items" :> "queryByWiql"
    @@ "wit_list_backlogs" :> "getBacklogs"
    @@ "wit_list_backlog_work_items" :> "getBacklogLevelWorkItems"
    @@ "wit_list_work_item_comments" :> "getComments"
    @@ "wit_add_work_item_comment" :> "addComment"
    @@ "wit_list_work_item_revisions" :> "getRevisions"
    @@ "wit_get_work_items_for_iteration" :> "getIterationWorkItems"
    @@ "wit_work_items_link" :> "updateWorkItem"
    @@ "wit_link_work_item_to_pull_request" :> "updateWorkItem"
    @@ "wit_add_artifact_link" :> "updateWorkItem"
    @@ "wit_get_work_item_type" :> "getWorkItemType"
    @@ "wit_get_query" :> "getQuery"
    @@ "wit_get_query_results_by_id" :> "queryById"
    @@ "pipelines_get_builds" :> "getBuilds"
    @@ "pipelines_get_build_changes" :> "getBuildChanges"
    @@ "pipelines_get_build_definitions" :> "getDefinitions"
    @@ "pipelines_get_build_definition_revisions" :> "getDefinitionRevisions"
    @@ "pipelines_get_build_log" :> "getBuildLogs"
    @@ "pipelines_get_build_log_by_id" :> "getBuildLogLines"
    @@ "pipelines_get_build_status" :> "getBuildReport"
    @@ "pipelines_create_pipeline" :> "createPipeline"
    @@ "pipelines_get_run" :> "getRun"
    @@ "pipelines_list_runs" :> "listRuns"
    @@ "pipelines_run_pipeline" :> "runPipeline"
    @@ "pipelines_list_artifacts" :> "getArtifacts"
    @@ "wiki_list_wikis" :> "getAllWikis"
    @@ "wiki_get_wiki" :> "getWiki"
    @@ "wiki_list_pages" :> "getPagesBatch"
    @@ "testplan_list_test_plans" :> "getTestPlans"
    @@ "testplan_create_test_plan" :> "createTestPlan"
    @@ "testplan_list_test_suites" :> "getTestSuitesForPlan"
    @@ "testplan_create_test_suite" :> "createTestSuite"
    @@ "testplan_list_test_cases" :> "getTestCaseList"
    @@ "testplan_create_test_case" :> "createWorkItem"
    @@ "testplan_update_test_case_steps" :> "updateWorkItem"
    @@ "testplan_add_test_cases_to_suite" :> "addTestCasesToSuite"
    @@ "testplan_show_test_results_from_build_id" :> "getTestResultDetailsForBuild"
    @@ "advsec_get_alerts" :> "getAlerts"
    @@ "advsec_get_alert_details" :> "getAlert"
    @@ "work_list_team_iterations" :> "getTeamIterations"
    @@ "work_list_iterations" :> "getClassificationNodes"
    @@ "work_get_team_capacity" :> "getCapacitiesWithIdentityRefAndTotals"
    @@ "work_update_team_capacity" :> "updateCapacityWithIdentityRef"
    @@ "work_get_iteration_capacities" :> "getTotalIterationCapacities"

----------------------------------------------------------------------------
(* Argument bags, thrown values, envelopes *)

\* the sequences over S of length at most n
RECURSIVE SeqsUpTo(_, _)
SeqsUpTo(S, n) ==
    IF n = 0 THEN {<<>>}
    ELSE LET shorter == SeqsUpTo(S, n - 1)
         IN  shorter \cup {Append(s, x) : s \in {t \in shorter : Len(t) = n - 1}, x \in S}

NoItems == [given |-> FALSE, ids |-> <<>>]
Items(ids) == [given |-> TRUE, ids |-> ids]

\* a string argument kept as its characters
NoChars == [given |-> FALSE, chars |-> <<>>]
Chars(cs) == [given |-> TRUE, chars |-> cs]

\* the bag with every field absent; extra is a field no tool declares, items
\* is the array a bulk tool loops over
EmptyArgs == [status |-> JsUndef, expand |-> JsUndef, repositoryId |-> JsUndef,
              project |-> JsUndef, sourceCommitId |-> JsUndef,
              sourceBranchName |-> JsUndef, branchName |-> JsUndef,
              targetId |-> JsUndef, linkType |-> NoChars,
              destinationPath |-> JsUndef, items |-> NoItems,
              projectNameFilter |-> NoChars, repoNameFilter |-> NoChars,
              top |-> JsUndef, skip |-> JsUndef, etag |-> JsUndef, extra |-> JsUndef]

\* inputSchema.properties of each descriptor: the argument fields a tool declares
DeclaredProperties ==
    "core_list_project_teams" :> {"project", "mine", "top", "skip"}
    @@ "core_list_projects" :> {"stateFilter", "top", "skip", "projectNameFilter"}
    @@ "core_get_identity_ids" :> {"searchFilter"}
    @@ "repo_list_repos_by_project" :> {"project", "top", "skip", "repoNameFilter"}
    @@ "repo_get_repo_by_name_or_id" :> {"repositoryId", "project"}
    @@ "repo_list_branches_by_repo" :> {"repositoryId", "top", "filterContains"}
    @@ "repo_list_my_branches_by_repo" :> {"repositoryId", "top"}
    @@ "repo_get_branch_by_name" :> {"repositoryId", "branchName"}
    @@ "repo_create_branch" :> {"repositoryId", "branchName", "sourceBranchName",
           "sourceCommitId"}
    @@ "repo_list_pull_requests_by_repo_or_project" :> {"repositoryId", "project", "top",
           "skip", "status"}
    @@ "repo_get_pull_request_by_id" :> {"repositoryId", "pullRequestId", "includeWorkItemRefs"}
    @@ "repo_create_pull_request" :> {"repositoryId", "sourceRefName", "targetRefName",
           "title", "description", "isDraft", "reviewers"}
    @@ "repo_update_pull_request" :> {"repositoryId", "pullRequestId", "title", "description",
           "status", "targetRefName"}
    @@ "repo_update_pull_request_reviewers" :> {"repositoryId", "pullRequestId", "reviewerId",
           "vote", "isRequired"}
    @@ "repo_list_pull_request_threads" :> {"repositoryId", "pullRequestId"}
    @@ "repo_list_pull_request_thread_comments" :> {"repositoryId", "pullRequestId", "threadId"}
    @@ "repo_create_pull_request_thread" :> {"repositoryId", "pullRequestId", "content",
           "status", "filePath", "lineNumber"}
    @@ "repo_update_pull_request_thread" :> {"repositoryId", "pullRequestId", "threadId",
           "status"}
    @@ "repo_reply_to_comment" :> {"repositoryId", "pullRequestId", "threadId", "content"}
    @@ "repo_search_commits" :> {"repositoryId", "project", "searchText", "author", "fromDate",
           "toDate", "top"}
    @@ "repo_list_pull_requests_by_commits" :> {"repositoryId", "project", "commitIds"}
    @@ "wit_get_work_item" :> {"id", "project", "fields", "expand"}
    @@ "wit_get_work_items_batch_by_ids" :> {"ids", "project", "fields", "expand"}
    @@ "wit_create_work_item" :> {"project", "workItemType", "fields"}
    @@ "wit_update_work_item" :> {"id", "updates"}
    @@ "wit_update_work_items_batch" :> {"project", "workItems"}
    @@ "wit_my_work_items" :> {"project", "type", "top"}
    @@ "wit_list_backlogs" :> {"project", "team"}
    @@ "wit_list_backlog_work_items" :> {"project", "team", "backlogId"}
    @@ "wit_list_work_item_comments" :> {"project", "workItemId"}
    @@ "wit_add_work_item_comment" :> {"project", "workItemId", "text"}
    @@ "wit_list_work_item_revisions" :> {"workItemId", "top", "skip"}
    @@ "wit_get_work_items_for_iteration" :> {"project", "team", "iterationId"}
    @@ "wit_add_child_work_items" :> {"parentId", "childIds"}
    @@ "wit_work_items_link" :> {"sourceId", "targetId", "linkType", "comment"}
    @@ "wit_work_item_unlink" :> {"sourceId", "targetId", "linkType"}
    @@ "wit_link_work_item_to_pull_request" :> {"workItemId", "repositoryId", "pullRequestId"}
    @@ "wit_add_artifact_link" :> {"workItemId", "artifactUri", "linkType", "comment"}
    @@ "wit_get_work_item_type" :> {"project", "type"}
    @@ "wit_get_query" :> {"project", "queryPath", "expand"}
    @@ "wit_get_query_results_by_id" :> {"project", "queryId", "team"}
    @@ "pipelines_get_builds" :> {"project", "definitions", "top", "branchName", "buildNumber",
           "statusFilter", "resultFilter"}
    @@ "pipelines_get_build_changes" :> {"project", "buildId", "top"}
    @@ "pipelines_get_build_definitions" :> {"project", "name", "repositoryId",
           "repositoryType", "top", "path"}
    @@ "pipelines_get_build_definition_revisions" :> {"project", "definitionId"}
    @@ "pipelines_get_build_log" :> {"project", "buildId"}
    @@ "pipelines_get_build_log_by_id" :> {"project", "buildId", "logId", "startLine",
           "endLine"}
    @@ "pipelines_get_build_status" :> {"project", "buildId"}
    @@ "pipelines_update_build_stage" :> {"project", "buildId", "stageName", "status",
           "forceRetryAllJobs"}
    @@ "pipelines_create_pipeline" :> {"project", "name", "folder", "yamlPath",
           "repositoryType", "repositoryName", "repositoryId"}
    @@ "pipelines_get_run" :> {"project", "pipelineId", "runId"}
    @@ "pipelines_list_runs" :> {"project", "pipelineId"}
    @@ "pipelines_run_pipeline" :> {"project", "pipelineId", "templateParameters",
           "stagesToSkip", "variables"}
    @@ "pipelines_list_artifacts" :> {"project", "buildId"}
    @@ "pipelines_download_artifact" :> {"project", "buildId", "artifactName",
           "destinationPath"}
    @@ "wiki_list_wikis" :> {"project"}
    @@ "wiki_get_wiki" :> {"wikiIdentifier", "project"}
    @@ "wiki_list_pages" :> {"wikiIdentifier", "project", "top", "continuationToken"}
    @@ "wiki_get_page" :> {"wikiIdentifier", "project", "path", "recursionLevel"}
    @@ "wiki_get_page_content" :> {"wikiIdentifier", "project", "path"}
    @@ "wiki_create_or_update_page" :> {"wikiIdentifier", "project", "path", "content", "etag"}
    @@ "search_code" :> {"searchText", "project", "repository", "path", "branch", "top", "skip"}
    @@ "search_wiki" :> {"searchText", "project", "wiki", "top", "skip"}
    @@ "search_workitem" :> {"searchText", "project", "workItemType", "state", "assignedTo",
           "top", "skip"}
    @@ "testplan_list_test_plans" :> {"project", "filterActivePlans", "includePlanDetails",
           "continuationToken"}
    @@ "testplan_create_test_plan" :> {"project", "name", "iteration", "description",
           "startDate", "endDate", "areaPath"}
    @@ "testplan_list_test_suites" :> {"project", "planId", "continuationToken"}
    @@ "testplan_create_test_suite" :> {"project", "planId", "parentSuiteId", "name"}
    @@ "testplan_list_test_cases" :> {"project", "planId", "suiteId"}
    @@ "testplan_create_test_case" :> {"project", "title", "steps", "priority", "areaPath",
           "iterationPath"}
    @@ "testplan_update_test_case_steps" :> {"id", "steps"}
    @@ "testplan_add_test_cases_to_suite" :> {"project", "planId", "suiteId", "testCaseIds"}
    @@ "testplan_show_test_results_from_build_id" :> {"project", "buildId"}
    @@ "advsec_get_alerts" :> {"project", "repository", "alertType", "states", "severities",
           "top", "onlyDefaultBranch"}
    @@ "advsec_get_alert_details" :> {"project", "repository", "alertId", "ref"}
    @@ "work_list_team_iterations" :> {"project", "team", "timeframe"}
    @@ "work_list_iterations" :> {"project", "depth"}
    @@ "work_create_iterations" :> {"project", "iterations"}
    @@ "work_assign_iterations" :> {"project", "team", "iterations"}
    @@ "work_get_team_capacity" :> {"project", "team", "iterationId"}
    @@ "work_update_team_capacity" :> {"project", "team", "iterationId", "teamMemberId",
           "activities", "daysOff"}
    @@ "work_get_iteration_capacities" :> {"project", "iterationId"}

\* const { ... } = args as any: the argument fields each branch reads
Destructured ==
    "core_list_project_teams" :> {"project", "mine", "top", "skip"}
    @@ "core_list_projects" :> {"stateFilter", "top", "skip", "projectNameFilter"}
    @@ "core_get_identity_ids" :> {"searchFilter"}
    @@ "repo_list_repos_by_project" :> {"project", "top", "skip", "repoNameFilter"}
    @@ "repo_get_repo_by_name_or_id" :> {"repositoryId", "project"}
    @@ "repo_list_branches_by_repo" :> {"repositoryId", "top", "filterContains"}
    @@ "repo_list_my_branches_by_repo" :> {"repositoryId", "top"}
    @@ "repo_get_branch_by_name" :> {"repositoryId", "branchName"}
    @@ "repo_create_branch" :> {"repositoryId", "branchName", "sourceBranchName",
           "sourceCommitId"}
    @@ "repo_list_pull_requests_by_repo_or_project" :> {"repositoryId", "project", "top",
           "skip", "status"}
    @@ "repo_get_pull_request_by_id" :> {"repositoryId", "pullRequestId", "includeWorkItemRefs"}
    @@ "repo_create_pull_request" :> {"repositoryId", "sourceRefName", "targetRefName",
           "title", "description", "isDraft", "reviewers"}
    @@ "repo_update_pull_request" :> {"repositoryId", "pullRequestId", "title", "description",
           "status", "targetRefName"}
    @@ "repo_update_pull_request_reviewers" :> {"repositoryId", "pullRequestId", "reviewerId",
           "vote", "isRequired"}
    @@ "repo_list_pull_request_threads" :> {"repositoryId", "pullRequestId"}
    @@ "repo_list_pull_request_thread_comments" :> {"repositoryId", "pullRequestId", "threadId"}
    @@ "repo_create_pull_request_thread" :> {"repositoryId", "pullRequestId", "content",
           "status", "filePath", "lineNumber"}
    @@ "repo_update_pull_request_thread" :> {"repositoryId", "pullRequestId", "threadId",
           "status"}
    @@ "repo_reply_to_comment" :> {"repositoryId", "pullRequestId", "threadId", "content"}
    @@ "repo_search_commits" :> {"repositoryId", "project", "searchText", "author", "fromDate",
           "toDate", "top"}
    @@ "repo_list_pull_requests_by_commits" :> {"repositoryId", "project", "commitIds"}
    @@ "wit_get_work_item" :> {"id", "project", "fields", "expand"}
    @@ "wit_get_work_items_batch_by_ids" :> {"ids", "project", "fields", "expand"}
    @@ "wit_create_work_item" :> {"project", "workItemType", "fields"}
    @@ "wit_update_work_item" :> {"id", "updates"}
    @@ "wit_update_work_items_batch" :> {"project", "workItems"}
    @@ "wit_my_work_items" :> {"project", "type", "top"}
    @@ "wit_list_backlogs" :> {"project", "team"}
    @@ "wit_list_backlog_work_items" :> {"project", "team", "backlogId"}
    @@ "wit_list_work_item_comments" :> {"project", "workItemId"}
    @@ "wit_add_work_item_comment" :> {"project", "workItemId", "text"}
    @@ "wit_list_work_item_revisions" :> {"workItemId", "top", "skip"}
    @@ "wit_get_work_items_for_iteration" :> {"project", "team", "iterationId"}
    @@ "wit_add_child_work_items" :> {"parentId", "childIds"}
    @@ "wit_work_items_link" :> {"sourceId", "targetId", "linkType", "comment"}
    @@ "wit_work_item_unlink" :> {"sourceId", "targetId", "linkType"}
    @@ "wit_link_work_item_to_pull_request" :> {"workItemId", "repositoryId", "pullRequestId"}
    @@ "wit_add_artifact_link" :> {"workItemId", "artifactUri", "linkType", "comment"}
    @@ "wit_get_work_item_type" :> {"project", "type"}
    @@ "wit_get_query" :> {"project", "queryPath", "expand"}
    @@ "wit_get_query_results_by_id" :> {"project", "queryId", "team"}
    @@ "pipelines_get_builds" :> {"project", "definitions", "top", "branchName", "buildNumber",
           "statusFilter", "resultFilter"}
    @@ "pipelines_get_build_changes" :> {"project", "buildId", "top"}
    @@ "pipelines_get_build_definitions" :> {"project", "name", "repositoryId",
           "repositoryType", "top", "path"}
    @@ "pipelines_get_build_definition_revisions" :> {"project", "definitionId"}
    @@ "pipelines_get_build_log" :> {"project", "buildId"}
    @@ "pipelines_get_build_log_by_id" :> {"project", "buildId", "logId", "startLine",
           "endLine"}
    @@ "pipelines_get_build_status" :> {"project", "buildId"}
    @@ "pipelines_update_build_stage" :> {"project", "buildId", "stageName", "status",
           "forceRetryAllJobs"}
    @@ "pipelines_create_pipeline" :> {"project", "name", "folder", "yamlPath",
           "repositoryType", "repositoryName", "repositoryId"}
    @@ "pipelines_get_run" :> {"project", "pipelineId", "runId"}
    @@ "pipelines_list_runs" :> {"project", "pipelineId"}
    @@ "pipelines_run_pipeline" :> {"project", "pipelineId", "templateParameters",
           "stagesToSkip", "variables"}
    @@ "pipelines_list_artifacts" :> {"project", "buildId"}
    @@ "pipelines_download_artifact" :> {"project", "buildId", "artifactName",
           "destinationPath"}
    @@ "wiki_list_wikis" :> {"project"}
    @@ "wiki_get_wiki" :> {"wikiIdentifier", "project"}
    @@ "wiki_list_pages" :> {"wikiIdentifier", "project", "top", "continuationToken"}
    @@ "wiki_get_page" :> {"wikiIdentifier", "project", "path", "recursionLevel"}
    @@ "wiki_get_page_content" :> {"wikiIdentifier", "project", "path"}
    @@ "wiki_create_or_update_page" :> {"wikiIdentifier", "project", "path", "content", "etag"}
    @@ "search_code" :> {"searchText", "project", "repository", "path", "branch", "top", "skip"}
    @@ "search_wiki" :> {"searchText", "project", "wiki", "top", "skip"}
    @@ "search_workitem" :> {"searchText", "project", "workItemType", "state", "assignedTo",
           "top", "skip"}
    @@ "testplan_list_test_plans" :> {"project", "filterActivePlans", "includePlanDetails",
           "continuationToken"}
    @@ "testplan_create_test_plan" :> {"project", "name", "iteration", "description",
           "startDate", "endDate", "areaPath"}
    @@ "testplan_list_test_suites" :> {"project", "planId", "continuationToken"}
    @@ "testplan_create_test_suite" :> {"project", "planId", "parentSuiteId", "name"}
    @@ "testplan_list_test_cases" :> {"project", "planId", "suiteId"}
    @@ "testplan_create_test_case" :> {"project", "title", "steps", "priority", "areaPath",
           "iterationPath"}
    @@ "testplan_update_test_case_steps" :> {"id", "steps"}
    @@ "testplan_add_test_cases_to_suite" :> {"project", "planId", "suiteId", "testCaseIds"}
    @@ "testplan_show_test_results_from_build_id" :> {"project", "buildId"}
    @@ "advsec_get_alerts" :> {"project", "repository", "alertType", "states", "severities",
           "top", "onlyDefaultBranch"}
    @@ "advsec_get_alert_details" :> {"project", "repository", "alertId", "ref"}
    @@ "work_list_team_iterations" :> {"project", "team", "timeframe"}
    @@ "work_list_iterations" :> {"project", "depth"}
    @@ "work_create_iterations" :> {"project", "iterations"}
    @@ "work_assign_iterations" :> {"project", "team", "iterations"}
    @@ "work_get_team_capacity" :> {"project", "team", "iterationId"}
    @@ "work_update_team_capacity" :> {"project", "team", "iterationId", "teamMemberId",
           "activities", "daysOff"}
    @@ "work_get_iteration_capacities" :> {"project", "iterationId"}

\* the name under which a branch reads a field of the bag
ArgName(branch, field) ==
    IF field # "items" THEN field
    ELSE CASE branch = "wit_update_work_items_batch" -> "workItems"
           [] branch = "wit_add_child_work_items" -> "childIds"
           [] branch \in {"work_create_iterations", "work_assign_iterations"} -> "iterations"
           [] OTHER -> field

\* a branch that hands the whole bag on
LocalsWholeBag(branch, args) == args

\* const { ... } = args as any: the branch's local variables; a field the
\* branch does not name stays out of its reach
Locals(branch, args) ==
    [f \in DOMAIN args |->
        IF ArgName(branch, f) \in Destructured[branch] THEN args[f] ELSE EmptyArgs[f]]

\* the wiki page as the service has it: its version and who saved it last
NoPage == [version |-> 0, by |-> "none"]
PageStates == {NoPage} \cup {[version |-> v, by |-> "other"] : v \in 1 .. MaxVersion}

Err(m) == [isErrorObject |-> TRUE, message |-> m]
NonError == [isErrorObject |-> FALSE, message |-> ""]
NoErr == [isErrorObject |-> FALSE, message |-> "-"]

\* what a downstream call can throw: Error objects, or some other thrown value
Messages == {"TF401019: not found", "401 Unauthorized"}
Thrown == {Err(m) : m \in Messages} \cup {NonError}

Envelope(isError, text) == [kind |-> "envelope", isError |-> isError, text |-> text]
NoResult == [kind |-> "none", isError |-> FALSE, text |-> ""]

\* a handler with the catch block missing: the error leaves the handler
CatchMissing(err) == [kind |-> "throw", isError |-> FALSE, text |-> err.message]

\* the catch block of the CallTool handler
Catch(err) ==
    Envelope(TRUE, "Error: " \o (IF err.isErrorObject THEN err.message
                                 ELSE "Unknown error occurred"))

\* JSON.stringify(x, null, 2) of a downstream result
Stringify(tag) == "json(" \o tag \o ")"

RECURSIVE JoinIds(_)
JoinIds(ids) ==
    IF ids = <<>> THEN ""
    ELSE ToString(ids[1]) \o (IF Len(ids) > 1 THEN "," ELSE "") \o JoinIds(Tail(ids))

\* JSON.stringify(results, null, 2) of a bulk branch: one entry per item
StringifyList(ids) == "json([" \o JoinIds(ids) \o "])"

----------------------------------------------------------------------------
(* String-to-code tables of handleToolCall *)

PrListStatusMap == "Abandoned" :> 2 @@ "Active" :> 1 @@ "All" :> 4 @@ "Completed" :> 3
                   @@ "NotSet" :> 0
PrUpdateStatusMap == "active" :> 1 @@ "abandoned" :> 2 @@ "completed" :> 3
ThreadStatusMap == "active" :> 1 @@ "fixed" :> 2 @@ "wontFix" :> 3 @@ "closed" :> 4
                   @@ "pending" :> 6
WorkItemExpandMap == "all" :> 4 @@ "fields" :> 1 @@ "links" :> 2 @@ "none" :> 0
                     @@ "relations" :> 3
QueryExpandMap == "all" :> 2 @@ "clauses" :> 1 @@ "minimal" :> 0 @@ "none" :> 0
                  @@ "wiql" :> 1

\* criteria.status of repo_list_pull_requests_by_repo_or_project
PrListStatus(args) ==
    JsOr(JsLookup(PrListStatusMap, JsDefault(args.status, JsStr("Active"))), JsNum(1))

\* `${value}` in a template literal
TemplateString(v) ==
    CASE v.t = "undefined" -> "undefined"
      [] v.t = "number" -> ToString(v.n)
      [] OTHER -> v.s

\* linkTypeMap of wit_work_items_link; names are sequences of characters
LinkTypeMap ==
       <<"p", "a", "r", "e", "n", "t">> :> <<"S", "y", "s", "t", "e", "m", ".", "L", "i", "n", "k", "T", "y", "p", "e", "s", ".", "H", "i", "e", "r", "a", "r", "c", "h", "y", "-", "R", "e", "v", "e", "r", "s", "e">>
    @@ <<"c", "h", "i", "l", "d">> :> <<"S", "y", "s", "t", "e", "m", ".", "L", "i", "n", "k", "T", "y", "p", "e", "s", ".", "H", "i", "e", "r", "a", "r", "c", "h", "y", "-", "F", "o", "r", "w", "a", "r", "d">>
    @@ <<"r", "e", "l", "a", "t", "e", "d">> :> <<"S", "y", "s", "t", "e", "m", ".", "L", "i", "n", "k", "T", "y", "p", "e", "s", ".", "R", "e", "l", "a", "t", "e", "d">>
    @@ <<"d", "u", "p", "l", "i", "c", "a", "t", "e">> :> <<"S", "y", "s", "t", "e", "m", ".", "L", "i", "n", "k", "T", "y", "p", "e", "s", ".", "D", "u", "p", "l", "i", "c", "a", "t", "e", "-", "F", "o", "r", "w", "a", "r", "d">>

\* linkTypeMap[linkType] || linkType
LinkRel(linkType) ==
    IF linkType.given /\ linkType.chars \in DOMAIN LinkTypeMap
    THEN LinkTypeMap[linkType.chars]
    ELSE IF linkType.given THEN linkType.chars ELSE <<"u", "n", "d", "e", "f", "i", "n", "e", "d">>

\* `${connection.serverUrl}/_apis/wit/workItems/${targetId}`, as the
\* sequence of its segments between slashes
WorkItemUrl(serverUrl, targetId) ==
    serverUrl \o <<"_apis", "wit", "workItems", TemplateString(targetId)>>

Relation(rel, url) == [rel |-> rel, url |-> url]

\* the relation wit_work_items_link adds to the source work item
LinkRelation(args) ==
    Relation(LinkRel(args.linkType), WorkItemUrl(clientPromise.serverUrl, args.targetId))

\* the JSON patch document of wit_work_items_link
LinkDocument(args) ==
    [t |-> "object", n |-> 0, s |-> "/relations/-", value |-> LinkRelation(args)]

\* the parameter a single-call branch passes downstream that depends on
\* its arguments: an enum value, or the patch document of a link
Param(branch, args) ==
    CASE branch = "repo_update_pull_request" ->
            IF Truthy(args.status) THEN JsLookup(PrUpdateStatusMap, args.status) ELSE JsUndef
      [] branch = "repo_create_pull_request_thread" ->
            JsOr(JsLookup(ThreadStatusMap, args.status), JsNum(1))
      [] branch = "repo_update_pull_request_thread" ->
            JsLookup(ThreadStatusMap, args.status)
      [] branch \in {"wit_get_work_item", "wit_get_work_items_batch_by_ids"} ->
            JsLookup(WorkItemExpandMap, args.expand)
      [] branch = "wit_get_query" ->
            JsLookup(QueryExpandMap, args.expand)
      [] branch = "wit_work_items_link" -> LinkDocument(args)
      [] branch = "repo_list_branches_by_repo" -> JsStr("heads/")
      [] OTHER -> JsUndef

----------------------------------------------------------------------------
(* src/server.ts: the branches of handleToolCall.                          *)
(* A branch runs from one await to the next. Continue gives what a branch  *)
(* does when it resumes with the calls in issued all completed: issue the  *)
(* next downstream call, return an envelope, or throw.                     *)

Call(op, param, item) ==
    [op |-> op, param |-> param, item |-> item, st |-> "pending", locals |-> EmptyArgs]
DoCall(op, param, item) ==
    [do |-> "call", calls |-> <<Call(op, param, item)>>, env |-> NoResult, err |-> NoErr]
DoReturn(env) == [do |-> "return", calls |-> <<>>, env |-> env, err |-> NoErr]
DoThrow(err) == [do |-> "throw", calls |-> <<>>, env |-> NoResult, err |-> err]

\* the ETag header of version v of a wiki page
Etag(v) == "v" \o ToString(v)
EtagTags == {Etag(v) : v \in 1 .. (MaxVersion + 1)}

HttpOk(tag) == tag \in {"ok-json", "ok-text", "ok-noetag"} \cup EtagTags
JsonBody(tag) == tag \in {"ok-json", "fail-json", "ok-noetag", "conflict"} \cup EtagTags
BodyText(tag) == "body(" \o tag \o ")"

\* await response.json(), then the envelope
ReturnJson(tag) ==
    IF JsonBody(tag) THEN DoReturn(Envelope(FALSE, Stringify(tag)))
    ELSE DoThrow(Err("Unexpected token < in JSON at position 0"))

\* branches whose URL is built from the module variable orgName
OrgBranches == {"core_get_identity_ids", "search_code", "search_wiki", "search_workitem"}

\* the organization in the URL of a fetch, read from orgName when the URL is built
UrlOrg(branch) == IF branch \in OrgBranches THEN JsStr(orgName) ELSE JsUndef

\* core_get_identity_ids, wiki_get_page: fetch, response.json(), envelope
FetchJsonStep(branch, args, issued) ==
    IF issued = <<>>
    THEN DoCall("fetch:GET", UrlOrg(branch), 0)
    ELSE ReturnJson(issued[1].st)

\* pipelines_update_build_stage, search_*: fetch, response.text(), envelope
FetchTextStep(branch, args, issued) ==
    IF issued = <<>>
    THEN DoCall(IF branch = "pipelines_update_build_stage" THEN "fetch:PATCH" ELSE "fetch:POST",
                UrlOrg(branch), 0)
    ELSE DoReturn(Envelope(FALSE, BodyText(issued[1].st)))

\* a loop that starts at the second element
BulkNextItemSkipFirst(ids, done) == ids[IF done + 2 <= Len(ids) THEN done + 2 ELSE 1]

\* the item of the loop's next iteration: for (const item of workItems)
BulkNextItem(ids, done) == ids[done + 1]

\* the bulk branches: one awaited call per item, results pushed in order
BulkStep(branch, args, issued) ==
    IF ~args.items.given
    THEN DoThrow(Err("undefined is not iterable"))
    ELSE IF Len(issued) < Len(args.items.ids)
    THEN DoCall(BulkMethod[branch], JsUndef, BulkNextItem(args.items.ids, Len(issued)))
    ELSE DoReturn(Envelope(FALSE, StringifyList([i \in 1 .. Len(issued) |-> issued[i].item])))

\* repo_list_pull_requests_by_repo_or_project
\* the same step when a project is preferred over a repositoryId
ListPullRequestsStepProjectFirst(args, issued) ==
    IF issued # <<>>
    THEN DoReturn(Envelope(FALSE, Stringify(issued[1].st)))
    ELSE IF Truthy(args.project)
    THEN DoCall("getPullRequestsByProject", PrListStatus(args), 0)
    ELSE IF Truthy(args.repositoryId)
    THEN DoCall("getPullRequests", PrListStatus(args), 0)
    ELSE DoReturn(Envelope(TRUE, "Either repositoryId or project required"))

ListPullRequestsStep(args, issued) ==
    IF issued # <<>>
    THEN DoReturn(Envelope(FALSE, Stringify(issued[1].st)))
    ELSE IF Truthy(args.repositoryId)
    THEN DoCall("getPullRequests", PrListStatus(args), 0)
    ELSE IF Truthy(args.project)
    THEN DoCall("getPullRequestsByProject", PrListStatus(args), 0)
    ELSE DoReturn(Envelope(TRUE, "Either repositoryId or project required"))

ZeroObjectId == "0000000000000000000000000000000000000000"

GitRef(name, objectId) == [name |-> name, objectId |-> objectId]

\* what getRefs resolves to for a name filter such as "heads/main": the
\* refs whose names start with it. "ref-found" is the branch behind a
\* neighbour with a longer name, "ref-prefix" the neighbour alone,
\* "ref-noobj" the branch without an object id, "ref-missing" no ref.
RefsAnswer(tag, filter) ==
    CASE tag = "ref-found" ->
            <<GitRef("refs/" \o filter \o "-2", "c2"), GitRef("refs/" \o filter, "c1")>>
      [] tag = "ref-prefix" -> <<GitRef("refs/" \o filter \o "-2", "c2")>>
      [] tag = "ref-noobj" -> <<GitRef("refs/" \o filter, "")>>
      [] OTHER -> <<>>

\* refs.find(r => r.name === name): its position, 0 when there is none
FindRef(refs, name) ==
    IF \E i \in 1 .. Len(refs) : refs[i].name = name
    THEN CHOOSE i \in 1 .. Len(refs) :
            /\ refs[i].name = name
            /\ \A j \in 1 .. (i - 1) : refs[j].name # name
    ELSE 0

\* the element of the array passed to updateRefs
RefUpdate(name, newObjectId) ==
    [t |-> "object", n |-> 0, s |-> name,
     newObjectId |-> newObjectId, oldObjectId |-> ZeroObjectId]

\* a lookup that takes the first ref the service lists
CreateBranchStepFirstRef(args, issued) ==
    LET source == JsDefault(args.sourceBranchName, JsStr("main"))
        target == "refs/heads/" \o TemplateString(args.branchName)
    IN  IF issued = <<>>
        THEN IF Truthy(args.sourceCommitId)
             THEN DoCall("updateRefs", RefUpdate(target, args.sourceCommitId.s), 0)
             ELSE DoCall("getRefs", JsStr("heads/" \o TemplateString(source)), 0)
        ELSE IF Last(issued).op = "getRefs"
        THEN LET refs == RefsAnswer(Last(issued).st, Last(issued).param.s)
             IN  IF refs # <<>> /\ refs[1].objectId # ""
                 THEN DoCall("updateRefs", RefUpdate(target, refs[1].objectId), 0)
                 ELSE DoReturn(Envelope(TRUE, "Source branch '" \o TemplateString(source)
                                              \o "' not found"))
        ELSE DoReturn(Envelope(FALSE, Stringify(Last(issued).st)))

\* repo_create_branch
CreateBranchStep(args, issued) ==
    LET source == JsDefault(args.sourceBranchName, JsStr("main"))
        target == "refs/heads/" \o TemplateString(args.branchName)
    IN  IF issued = <<>>
        THEN IF Truthy(args.sourceCommitId)
             THEN DoCall("updateRefs", RefUpdate(target, args.sourceCommitId.s), 0)
             ELSE DoCall("getRefs", JsStr("heads/" \o TemplateString(source)), 0)
        ELSE IF Last(issued).op = "getRefs"
        THEN LET refs == RefsAnswer(Last(issued).st, Last(issued).param.s)
                 i == FindRef(refs, "refs/heads/" \o TemplateString(source))
             IN  IF i # 0 /\ refs[i].objectId # ""
                 THEN DoCall("updateRefs", RefUpdate(target, refs[i].objectId), 0)
                 ELSE DoReturn(Envelope(TRUE, "Source branch '" \o TemplateString(source)
                                              \o "' not found"))
        ELSE DoReturn(Envelope(FALSE, Stringify(Last(issued).st)))

\* workItem.relations for each answer of getWorkItem. "rel-found" has a
\* relation of another type first, then two relations to the target whose
\* type contains linkType; "rel-other-target" a relation of that type to a
\* work item whose id ends with the target's; "rel-other-type" a relation
\* of another type to the target; "rel-linked" the relation that
\* wit_work_items_link adds for the same targetId and linkType; "rel-none"
\* a work item without relations.
RelationsAnswer(tag, args) ==
    LET type == IF args.linkType.given THEN args.linkType.chars ELSE <<"u", "n", "d", "e", "f", "i", "n", "e", "d">>
        target == WorkItemUrl(clientPromise.serverUrl, args.targetId)
        other == WorkItemUrl(clientPromise.serverUrl, JsStr("1" \o TemplateString(args.targetId)))
    IN  CASE tag = "rel-found" ->
                <<Relation(<<"A", "r", "t", "i", "f", "a", "c", "t", "L", "i", "n", "k">>, target),
                  Relation(<<"S", "y", "s", "t", "e", "m", ".", "L", "i", "n", "k", "T", "y", "p", "e", "s", ".">> \o type, target),
                  Relation(type, target)>>
          [] tag = "rel-other-target" -> <<Relation(<<"S", "y", "s", "t", "e", "m", ".", "L", "i", "n", "k", "T", "y", "p", "e", "s", ".">> \o type, other)>>
          [] tag = "rel-other-type" -> <<Relation(<<"A", "r", "t", "i", "f", "a", "c", "t", "L", "i", "n", "k">>, target)>>
          [] tag = "rel-linked" -> <<LinkRelation(args)>>
          [] OTHER -> <<>>

\* r.url?.endsWith(`/${targetId}`) && r.rel?.includes(linkType); the id has
\* no slash, so the URL ends with it exactly when its last segment is it
RelationMatches(r, args) ==
    /\ Len(r.url) >= 2 /\ r.url[Len(r.url)] = TemplateString(args.targetId)
    /\ Includes(r.rel, IF args.linkType.given THEN args.linkType.chars ELSE <<"u", "n", "d", "e", "f", "i", "n", "e", "d">>)

\* relations.findIndex(...): the index from 0 of the first match, -1 without
FindIndex(relations, args) ==
    IF \E i \in 1 .. Len(relations) : RelationMatches(relations[i], args)
    THEN (CHOOSE i \in 1 .. Len(relations) :
            /\ RelationMatches(relations[i], args)
            /\ \A j \in 1 .. (i - 1) : ~RelationMatches(relations[j], args)) - 1
    ELSE -1

\* an unlink that removes the last matching relation
UnlinkStepLastMatch(args, issued) ==
    IF issued = <<>>
    THEN DoCall("getWorkItem", JsNum(3), 0)
    ELSE IF Len(issued) = 1
    THEN LET relations == RelationsAnswer(issued[1].st, args)
             matches == {i \in 1 .. Len(relations) : RelationMatches(relations[i], args)}
         IN  IF matches = {}
             THEN DoReturn(Envelope(TRUE, "Link not found"))
             ELSE DoCall("updateWorkItem",
                         JsStr("/relations/" \o ToString(
                             (CHOOSE i \in matches : \A j \in matches : j <= i) - 1)), 0)
    ELSE DoReturn(Envelope(FALSE, Stringify(issued[2].st)))

\* wit_work_item_unlink; the parameter of the update is the path it removes
UnlinkStep(args, issued) ==
    IF issued = <<>>
    THEN DoCall("getWorkItem", JsNum(3), 0)
    ELSE IF Len(issued) = 1
    THEN LET idx == FindIndex(RelationsAnswer(issued[1].st, args), args)
         IN  IF idx = -1
             THEN DoReturn(Envelope(TRUE, "Link not found"))
             ELSE DoCall("updateWorkItem", JsStr("/relations/" \o ToString(idx)), 0)
    ELSE DoReturn(Envelope(FALSE, Stringify(issued[2].st)))

\* if (etag) headers["If-Match"] = etag: the If-Match header of the first PUT
IfMatch(etag) == IF Truthy(etag) THEN etag ELSE JsUndef

\* an upsert that repeats the PUT without asking for the page's ETag
WikiUpsertStepNoGet(args, issued) ==
    CASE Len(issued) = 0 -> DoCall("fetch:PUT", IfMatch(args.etag), 0)
      [] Len(issued) = 1 ->
            IF HttpOk(issued[1].st) THEN ReturnJson(issued[1].st)
            ELSE DoCall("fetch:PUT", JsUndef, 0)
      [] OTHER ->
            IF HttpOk(issued[2].st) THEN ReturnJson(issued[2].st)
            ELSE DoReturn(Envelope(TRUE, BodyText(issued[1].st)))

\* wiki_create_or_update_page; the parameter of a PUT is its If-Match header
WikiUpsertStep(args, issued) ==
    CASE Len(issued) = 0 -> DoCall("fetch:PUT", IfMatch(args.etag), 0)
      [] Len(issued) = 1 ->
            IF HttpOk(issued[1].st) THEN ReturnJson(issued[1].st)
            ELSE DoCall("fetch:GET", JsUndef, 0)
      [] Len(issued) = 2 ->
            IF issued[2].st \in EtagTags THEN DoCall("fetch:PUT", JsStr(issued[2].st), 0)
            ELSE DoReturn(Envelope(TRUE, BodyText(issued[1].st)))
      [] OTHER ->
            IF HttpOk(issued[3].st) THEN ReturnJson(issued[3].st)
            ELSE DoReturn(Envelope(TRUE, BodyText(issued[1].st)))

\* wiki_get_page_content
WikiContentStep(args, issued) ==
    CASE Len(issued) = 0 -> DoCall("getPageText", JsUndef, 0)
      [] Len(issued) = 1 ->
            IF issued[1].st = "null" THEN DoReturn(Envelope(TRUE, "No content found"))
            ELSE DoCall("stream:toString", JsUndef, 0)
      [] OTHER -> DoReturn(Envelope(FALSE, "content"))

\* pipelines_download_artifact
DownloadStep(args, issued) ==
    CASE Len(issued) = 0 -> DoCall("getArtifactContentZip", JsUndef, 0)
      [] Len(issued) = 1 ->
            IF Truthy(args.destinationPath) THEN DoCall("stream:pipe", JsUndef, 0)
            ELSE DoCall("stream:collect", JsUndef, 0)
      [] OTHER ->
            IF Truthy(args.destinationPath) THEN DoReturn(Envelope(FALSE, "Artifact saved to file"))
            ELSE DoReturn(Envelope(FALSE, "Artifact size: n bytes (base64 not shown)"))

\* String.prototype.toLowerCase, on the letters the names are made of
UpperCase == <<"A", "B", "C", "D", "E", "F", "G", "H", "I", "J", "K", "L", "M",
               "N", "O", "P", "Q", "R", "S", "T", "U", "V", "W", "X", "Y", "Z">>
LowerCase == <<"a", "b", "c", "d", "e", "f", "g", "h", "i", "j", "k", "l", "m",
               "n", "o", "p", "q", "r", "s", "t", "u", "v", "w", "x", "y", "z">>
LowerCaseChar(c) ==
    IF \E i \in DOMAIN UpperCase : UpperCase[i] = c
    THEN LowerCase[CHOOSE i \in DOMAIN UpperCase : UpperCase[i] = c]
    ELSE c
ToLowerCase(cs) == [i \in DOMAIN cs |-> LowerCaseChar(cs[i])]

\* an element of a fetched list: its name, if it has one
Named(cs) == [hasName |-> TRUE, name |-> cs]
Unnamed == [hasName |-> FALSE, name |-> <<>>]
FetchedItems == {Named(<<"A", "b">>), Named(<<"b">>), Unnamed}
FetchedLists == SeqsUpTo(FetchedItems, MaxFetched)

RECURSIVE CharsToString(_)
CharsToString(cs) == IF cs = <<>> THEN "" ELSE cs[1] \o CharsToString(Tail(cs))

\* JSON.stringify of a list of such elements
RECURSIVE JoinItems(_)
JoinItems(l) ==
    IF l = <<>> THEN ""
    ELSE (IF l[1].hasName THEN "{name:" \o CharsToString(l[1].name) \o "}" ELSE "{}")
         \o (IF Len(l) > 1 THEN "," ELSE "") \o JoinItems(Tail(l))

ListTag(l) == "[" \o JoinItems(l) \o "]"

FetchedListTags == {ListTag(l) : l \in FetchedLists}

\* the list a call answered with
FetchedList(tag) == CHOOSE l \in FetchedLists : ListTag(l) = tag

\* a filter that compares the names as they are written
NameMatchesCaseSensitive(item, filter) == item.hasName /\ Includes(item.name, filter)

\* p => p.name?.toLowerCase().includes(filter.toLowerCase())
NameMatches(item, filter) ==
    item.hasName /\ Includes(ToLowerCase(item.name), ToLowerCase(filter))

\* list.filter(...) with that test
RECURSIVE FilterByName(_, _)
FilterByName(l, filter) ==
    IF l = <<>> THEN <<>>
    ELSE (IF NameMatches(l[1], filter) THEN <<l[1]>> ELSE <<>>)
         \o FilterByName(Tail(l), filter)

\* if (filter) list = list.filter(...): an absent or empty filter is falsy
Filtered(l, filter) ==
    IF filter.given /\ filter.chars # <<>> THEN FilterByName(l, filter.chars) ELSE l

\* Array.prototype.slice: an index below zero counts from the end, and
\* every index is clamped to 0 .. length
SliceIndex(l, k) ==
    IF k < 0 THEN (IF Len(l) + k < 0 THEN 0 ELSE Len(l) + k)
    ELSE (IF k > Len(l) THEN Len(l) ELSE k)

Slice(l, from, to) == SubSeq(l, SliceIndex(l, from) + 1, SliceIndex(l, to))

DefaultTop == 100
DefaultSkip == 0

\* core_list_projects
ListProjectsStep(args, issued) ==
    IF issued = <<>>
    THEN DoCall("getProjects", JsUndef, 0)
    ELSE DoReturn(Envelope(FALSE,
            Stringify(ListTag(Filtered(FetchedList(issued[1].st), args.projectNameFilter)))))

\* repo_list_repos_by_project
ListReposStep(args, issued) ==
    IF issued = <<>>
    THEN DoCall("getRepositories", JsUndef, 0)
    ELSE LET top == JsDefault(args.top, JsNum(DefaultTop)).n
             skip == JsDefault(args.skip, JsNum(DefaultSkip)).n
             repos == Filtered(FetchedList(issued[1].st), args.repoNameFilter)
         IN  DoReturn(Envelope(FALSE, Stringify(ListTag(Slice(repos, skip, skip + top)))))

\* the refs getRefs answers with, each by the segments of its name
RefNames == {<<"refs", "heads", "a">>, <<"refs", "heads", "b">>, <<"refs", "tags", "a">>}
FetchedRefLists == SeqsUpTo(RefNames, MaxFetched)

RECURSIVE JoinPath(_)
JoinPath(segs) ==
    IF segs = <<>> THEN ""
    ELSE segs[1] \o (IF Len(segs) > 1 THEN "/" ELSE "") \o JoinPath(Tail(segs))

\* JSON.stringify of a list of names
RECURSIVE JoinNames(_)
JoinNames(l) ==
    IF l = <<>> THEN ""
    ELSE JoinPath(l[1]) \o (IF Len(l) > 1 THEN "," ELSE "") \o JoinNames(Tail(l))

NamesTag(l) == "[" \o JoinNames(l) \o "]"
FetchedRefTags == {NamesTag(l) : l \in FetchedRefLists}
FetchedRefs(tag) == CHOOSE l \in FetchedRefLists : NamesTag(l) = tag

\* b.name?.startsWith("refs/heads/")
IsHead(name) == Len(name) > 2 /\ SubSeq(name, 1, 2) = <<"refs", "heads">>

\* branches.filter(startsWith "refs/heads/").map(replace "refs/heads/" by "")
RECURSIVE HeadNames(_)
HeadNames(branches) ==
    IF branches = <<>> THEN <<>>
    ELSE (IF IsHead(branches[1]) THEN <<SubSeq(branches[1], 3, Len(branches[1]))>> ELSE <<>>)
         \o HeadNames(Tail(branches))

\* repo_list_branches_by_repo
ListBranchesStep(args, issued) ==
    IF issued = <<>>
    THEN DoCall("getRefs", Param("repo_list_branches_by_repo", args), 0)
    ELSE LET top == JsDefault(args.top, JsNum(DefaultTop)).n
             branches == FetchedRefs(issued[1].st)
         IN  DoReturn(Envelope(FALSE, Stringify(NamesTag(Slice(HeadNames(branches), 0, top)))))

\* a branch that makes its call a second time before it returns
SingleCallStepTwice(branch, args, issued) ==
    IF Len(issued) < 2
    THEN DoCall(SdkMethod[branch], Param(branch, args), 0)
    ELSE DoReturn(Envelope(FALSE, Stringify(issued[2].st)))

\* the branches that await one SDK method and stringify its result
SingleCallStep(branch, args, issued) ==
    IF issued = <<>>
    THEN DoCall(SdkMethod[branch], Param(branch, args), 0)
    ELSE DoReturn(Envelope(FALSE, Stringify(issued[1].st)))

Continue(branch, args, issued) ==
    CASE branch \in FetchJsonBranches -> FetchJsonStep(branch, args, issued)
      [] branch \in FetchTextBranches -> FetchTextStep(branch, args, issued)
      [] branch \in BulkBranches -> BulkStep(branch, args, issued)
      [] branch = "repo_list_pull_requests_by_repo_or_project" -> ListPullRequestsStep(args, issued)
      [] branch = "repo_create_branch" -> CreateBranchStep(args, issued)
      [] branch = "wit_work_item_unlink" -> UnlinkStep(args, issued)
      [] branch = "wiki_create_or_update_page" -> WikiUpsertStep(args, issued)
      [] branch = "wiki_get_page_content" -> WikiContentStep(args, issued)
      [] branch = "pipelines_download_artifact" -> DownloadStep(args, issued)
      [] branch = "core_list_projects" -> ListProjectsStep(args, issued)
      [] branch = "repo_list_repos_by_project" -> ListReposStep(args, issued)
      [] branch = "repo_list_branches_by_repo" -> ListBranchesStep(args, issued)
      [] OTHER -> SingleCallStep(branch, args, issued)

\* what the external service (or the stream) can answer to a call
ResultTags(branch, call) ==
    CASE branch = "wiki_create_or_update_page" -> {}
      [] call.op \in {"fetch:GET", "fetch:PUT", "fetch:POST", "fetch:PATCH"} ->
            {"ok-json", "ok-text", "fail-json", "fail-text"}
      [] call.op = "getRefs" /\ branch = "repo_create_branch" ->
            {"ref-found", "ref-prefix", "ref-noobj", "ref-missing"}
      [] call.op = "getRefs" /\ branch = "repo_list_branches_by_repo" -> FetchedRefTags
      [] call.op = "getWorkItem" /\ branch = "wit_work_item_unlink" ->
            {"rel-found", "rel-other-target", "rel-other-type", "rel-linked", "rel-none"}
      [] call.op = "getPageText" -> {"stream", "null"}
      [] call.op = "getArtifactContentZip" -> {"stream"}
      [] call.op \in {"stream:toString", "stream:pipe", "stream:collect"} -> {"end"}
      [] call.op \in {"getProjects", "getRepositories"} -> FetchedListTags
      [] OTHER -> {"result"}

----------------------------------------------------------------------------
(* The inputs of the CallTool handler *)

UnknownNames == {"no_such_tool", "core_list_project", ""}
ToolInputs == CatalogNames \cup UnknownNames

Strs(keys) == {JsStr(s) : s \in keys}
UndeclaredStrs == Strs({"bogus"})
EnumInputs(table) == {JsUndef} \cup Strs(DOMAIN table) \cup UndeclaredStrs

FilterInputs == {NoChars, Chars(<<>>), Chars(<<"B">>), Chars(<<"a", "B">>)}

ItemIds == {1, 2}
ItemInputs == {NoItems} \cup {Items(ids) : ids \in SeqsUpTo(ItemIds, MaxItems)}

\* a bag with a value in every field
AllArgs == [status |-> JsStr("active"), expand |-> JsStr("all"), repositoryId |-> JsStr("repo"),
            project |-> JsStr("proj"), sourceCommitId |-> JsStr("c0ffee"),
            sourceBranchName |-> JsStr("dev"), branchName |-> JsStr("topic"),
            targetId |-> JsNum(7), linkType |-> Chars(<<"r", "e", "l", "a", "t", "e", "d">>),
            destinationPath |-> JsStr("out"), items |-> Items(<<1, 2>>),
            projectNameFilter |-> Chars(<<"b">>), repoNameFilter |-> Chars(<<"b">>),
            top |-> JsNum(1), skip |-> JsNum(1), etag |-> JsStr("v1"), extra |-> JsStr("x")]

\* a bag with a value in exactly the fields the tool does not declare
UndeclaredArgs(name) ==
    [f \in DOMAIN EmptyArgs |->
        IF ArgName(name, f) \in DeclaredProperties[name] THEN EmptyArgs[f] ELSE AllArgs[f]]

DeclaredArgsFor(name) ==
    CASE name = "repo_list_pull_requests_by_repo_or_project" ->
            {[EmptyArgs EXCEPT !.status = s, !.repositoryId = r, !.project = p] :
                s \in EnumInputs(PrListStatusMap),
                r \in {JsUndef, JsStr(""), JsStr("repo")},
                p \in {JsUndef, JsStr(""), JsStr("proj")}}
      [] name = "repo_update_pull_request" ->
            {[EmptyArgs EXCEPT !.status = s] : s \in EnumInputs(PrUpdateStatusMap) \cup Strs({"Active"})}
      [] name \in {"repo_create_pull_request_thread", "repo_update_pull_request_thread"} ->
            {[EmptyArgs EXCEPT !.status = s] : s \in EnumInputs(ThreadStatusMap)}
      [] name \in {"wit_get_work_item", "wit_get_work_items_batch_by_ids"} ->
            {[EmptyArgs EXCEPT !.expand = e] : e \in EnumInputs(WorkItemExpandMap)}
      [] name = "wit_get_query" ->
            {[EmptyArgs EXCEPT !.expand = e] : e \in EnumInputs(QueryExpandMap)}
      [] name \in BulkBranches ->
            {[EmptyArgs EXCEPT !.items = it] : it \in ItemInputs}
      [] name \in {"wit_work_items_link", "wit_work_item_unlink"} ->
            {[EmptyArgs EXCEPT !.targetId = JsNum(7), !.linkType = Chars(l)] :
                l \in {<<"p", "a", "r", "e", "n", "t">>, <<"R", "e", "l", "a", "t", "e", "d">>, <<"S", "y", "s", "t", "e", "m", ".", "L", "i", "n", "k", "T", "y", "p", "e", "s", ".", "R", "e", "l", "a", "t", "e", "d">>}}
      [] name = "repo_create_branch" ->
            {[EmptyArgs EXCEPT !.sourceCommitId = c, !.sourceBranchName = b,
                               !.branchName = JsStr("topic")] :
                c \in {JsUndef, JsStr("c0ffee")}, b \in {JsUndef, JsStr("dev")}}
      [] name = "wiki_create_or_update_page" ->
            {[EmptyArgs EXCEPT !.etag = e] : e \in {JsUndef} \cup {JsStr(Etag(v)) : v \in 1 .. MaxVersion}}
      [] name = "pipelines_download_artifact" ->
            {[EmptyArgs EXCEPT !.destinationPath = d] : d \in {JsUndef, JsStr("out")}}
      [] name = "core_list_projects" ->
            {[EmptyArgs EXCEPT !.projectNameFilter = f] : f \in FilterInputs}
      [] name = "repo_list_repos_by_project" ->
            {[EmptyArgs EXCEPT !.repoNameFilter = f, !.top = t, !.skip = k] :
                f \in FilterInputs, t \in {JsUndef, JsNum(1)}, k \in {JsUndef, JsNum(1)}}
      [] name = "repo_list_branches_by_repo" ->
            {[EmptyArgs EXCEPT !.top = t] : t \in {JsUndef, JsNum(-1), JsNum(0), JsNum(2)}}
      [] name \in UnknownNames ->
            {EmptyArgs, [EmptyArgs EXCEPT !.status = JsStr("Active"), !.items = Items(<<1>>)]}
      [] OTHER -> {EmptyArgs}

\* request.params.arguments: any bag, whatever the tool declares
ArgsFor(name) ==
    IF name \in CatalogNames
    THEN DeclaredArgsFor(name) \cup {UndeclaredArgs(name), AllArgs}
    ELSE DeclaredArgsFor(name)

----------------------------------------------------------------------------
(* src/server.ts: createServer and the CallTool request handler *)

IdleInv == [pc |-> "idle", name |-> "", args |-> EmptyArgs, issued |-> <<>>,
            result |-> NoResult, thrown |-> NoErr]

Pending(issued) == {i \in DOMAIN issued : issued[i].st = "pending"}

\* process.env: a variable is set or not; dotenv leaves an empty value empty
EnvUrls == {[given |-> FALSE, value |-> EmptyUrl]} \cup {[given |-> TRUE, value |-> u] : u \in Urls}
EnvPats == {[given |-> FALSE, value |-> ""]} \cup {[given |-> TRUE, value |-> t] : t \in Pats}
Envs == [AZURE_DEVOPS_ORG_URL : EnvUrls, AZURE_DEVOPS_PAT : EnvPats]
NoEnv == [AZURE_DEVOPS_ORG_URL |-> [given |-> FALSE, value |-> EmptyUrl],
          AZURE_DEVOPS_PAT |-> [given |-> FALSE, value |-> ""]]

NotStarted == [state |-> "off", status |-> 0, env |-> NoEnv, printed |-> <<>>, connected |-> FALSE]

\* createServer(config), called by a host that imports server.ts
CreateServer(c) ==
    /\ server = "none"
    /\ proc = NotStarted
    /\ IF c.organizationUrl = EmptyUrl \/ c.personalAccessToken = ""
       THEN /\ server' = "threw"
            /\ UNCHANGED <<config, orgName, inv>>
       ELSE /\ server' = "created"
            /\ config' = c
            /\ orgName' = OrgNameOf(c.organizationUrl)
            /\ inv' = IdleInv
    /\ UNCHANGED <<clientPromise, constructions, callers, served, prev, stepsVars, authVars, procVars, utilVars, worldVars>>

\* index.ts (README.md): getConfig and main

\* the lines written with console.error when AZURE_DEVOPS_ORG_URL is missing
UrlDiagnostic ==
    <<"Error: AZURE_DEVOPS_ORG_URL environment variable is required",
      "Example: https://dev.azure.com/your-organization">>

\* the lines written with console.error when AZURE_DEVOPS_PAT is missing
PatDiagnostic ==
    <<"Error: AZURE_DEVOPS_PAT environment variable is required",
      "Generate a PAT at: https://dev.azure.com/{org}/_usersSettings/tokens",
      "",
      "Required PAT scopes:",
      "  - Code (Read & Write)",
      "  - Work Items (Read & Write)",
      "  - Build (Read & Execute)",
      "  - Project and Team (Read)",
      "  - Wiki (Read & Write)",
      "  - Test Management (Read & Write)">>

\* !value of an environment variable: undefined and "" are falsy
EnvMissingUrl(v) == ~v.given \/ v.value = EmptyUrl
EnvMissingPat(v) == ~v.given \/ v.value = ""

\* getConfig with the test of the token left out
getConfigUrlOnly(env) ==
    IF EnvMissingUrl(env.AZURE_DEVOPS_ORG_URL)
    THEN [exit |-> TRUE, printed |-> UrlDiagnostic, config |-> NoConfig]
    ELSE [exit |-> FALSE, printed |-> <<>>,
          config |-> [organizationUrl |-> env.AZURE_DEVOPS_ORG_URL.value,
                      personalAccessToken |-> env.AZURE_DEVOPS_PAT.value]]

\* getConfig(): process.exit(1) after the diagnostic, or the configuration
getConfig(env) ==
    IF EnvMissingUrl(env.AZURE_DEVOPS_ORG_URL)
    THEN [exit |-> TRUE, printed |-> UrlDiagnostic, config |-> NoConfig]
    ELSE IF EnvMissingPat(env.AZURE_DEVOPS_PAT)
    THEN [exit |-> TRUE, printed |-> PatDiagnostic, config |-> NoConfig]
    ELSE [exit |-> FALSE, printed |-> <<>>,
          config |-> [organizationUrl |-> env.AZURE_DEVOPS_ORG_URL.value,
                      personalAccessToken |-> env.AZURE_DEVOPS_PAT.value]]

\* the string an organization URL was split from
RECURSIVE JoinUrl(_)
JoinUrl(parts) ==
    IF Len(parts) = 1 THEN parts[1] ELSE parts[1] \o "/" \o JoinUrl(Tail(parts))

\* what createServer(c) throws, NoErr when it returns the server
CreateServerError(c) ==
    IF c.organizationUrl = EmptyUrl THEN Err("Organization URL is required")
    ELSE IF c.personalAccessToken = "" THEN Err("Personal Access Token (PAT) is required")
    ELSE NoErr

Exited(env, printed) ==
    [state |-> "exited", status |-> 1, env |-> env, printed |-> printed, connected |-> FALSE]

\* the catch block of main
FatalError(err) == <<"Fatal error: " \o err.message>>

\* main(), run when index.ts is loaded with the environment env; connect is
\* what server.connect(transport) throws, NoErr when it returns
Main(env, connect) ==
    /\ proc = NotStarted
    /\ server = "none"
    /\ LET got == getConfig(env)
           started == <<"MCP Azure DevOps Server starting...",
                        "Organization: " \o JoinUrl(got.config.organizationUrl),
                        "Authentication: PAT (Personal Access Token)">>
           err == CreateServerError(got.config)
       IN  IF got.exit
           THEN /\ proc' = Exited(env, got.printed)
                /\ UNCHANGED <<config, server, orgName, inv>>
           ELSE IF err # NoErr
           THEN /\ proc' = Exited(env, started \o FatalError(err))
                /\ server' = "threw"
                /\ UNCHANGED <<config, orgName, inv>>
           ELSE /\ server' = "created"
                /\ config' = got.config
                /\ orgName' = OrgNameOf(got.config.organizationUrl)
                /\ inv' = IdleInv
                /\ proc' = IF connect = NoErr
                           THEN [state |-> "running", status |-> 0, env |-> env,
                                 printed |-> started, connected |-> TRUE]
                           ELSE Exited(env, started \o FatalError(connect))
    /\ UNCHANGED <<clientPromise, constructions, callers, served, prev, listed, later,
                   stepsVars, authVars, utilVars, worldVars>>

\* createServer(c) called again in the same process: another Server and
\* another AzureDevOpsClient, and the same module variable orgName. The
\* invocations the model follows are those of the first server.
CreateServerAgain(c) ==
    /\ server = "created"
    /\ proc = NotStarted
    /\ Len(later) < MaxLaterServers
    /\ CreateServerError(c) = NoErr
    /\ orgName' = OrgNameOf(c.organizationUrl)
    /\ later' = Append(later, c)
    /\ UNCHANGED <<clientVars, server, inv, served, prev, proc, listed,
                   stepsVars, authVars, utilVars, worldVars>>

\* a ListTools handler whose answer leaves out the tools already served
ListToolsAfterServed == [tools |-> SubSeq(Catalog, served + 1, Len(Catalog))]

\* the ListTools handler: { tools: getAllToolDefinitions() }
ListToolsHandler == [tools |-> Catalog]

\* a ListTools request arrives and is answered
ListTools ==
    /\ server = "created"
    /\ proc.state # "exited"
    /\ listed' = ListToolsHandler.tools
    /\ UNCHANGED <<clientVars, serverVars, proc, later, stepsVars, authVars, utilVars, worldVars>>

\* a CallTool request arrives: the handler runs to await connectionProvider()
CallTool(name, args) ==
    /\ server = "created"
    /\ proc.state # "exited"
    /\ inv.pc = "idle"
    /\ served < MaxInvocations
    /\ clientPromise' = getClientPromise
    /\ constructions' = getClientCount
    /\ inv' = [IdleInv EXCEPT !.pc = "connecting", !.name = name, !.args = args]
    /\ buffered = 0
    /\ page' \in (IF name = "wiki_create_or_update_page" THEN PageStates ELSE {NoPage})
    /\ UNCHANGED <<config, callers, server, orgName, served, prev, stepsVars, authVars, procVars, utilVars, buffered>>

\* the default branch of the switch, with the error flag forgotten
UnknownToolUnflagged(name) == Envelope(FALSE, "Unknown tool: " \o name)

\* the default branch of the switch
UnknownTool(name) == Envelope(TRUE, "Unknown tool: " \o name)

\* the handler ends with the envelope env
Returned(env, err) == [inv EXCEPT !.pc = "returned", !.result = env, !.thrown = err]

\* the handler ends in its catch block
Caught(i, err) == [i EXCEPT !.pc = "returned", !.result = Catch(err), !.thrown = err]

\* the branch goes on to its next await, its return or its throw; a call is
\* made from the branch's local variables
Advance(i, step) ==
    CASE step.do = "call" ->
            [i EXCEPT !.pc = "calling",
                      !.issued = @ \o [k \in DOMAIN step.calls |->
                                          [step.calls[k] EXCEPT
                                              !.locals = Locals(Branch(i.name), i.args)]]]
      [] step.do = "return" -> [i EXCEPT !.pc = "returned", !.result = step.env]
      [] OTHER -> Caught(i, step.err)

\* await connectionProvider() resumes; handleToolCall runs to its first await
Connected ==
    /\ inv.pc = "connecting"
    /\ inv' = IF clientPromise.state = "rejected"
              THEN Caught(inv, Err(clientPromise.message))
              ELSE LET branch == Branch(inv.name)
                   IN  IF branch = "default"
                       THEN Returned(UnknownTool(inv.name), NoErr)
                       ELSE IF branch \in NoApiBranches
                       THEN Advance(inv, Continue(branch, Locals(branch, inv.args), <<>>))
                       ELSE [inv EXCEPT !.pc = "api"]
    /\ UNCHANGED <<clientVars, server, orgName, served, prev, stepsVars, authVars, procVars, utilVars, worldVars>>

\* await connection.getXApi() resumes, with the API object (outcome NoErr) or by
\* throwing outcome
ApiAcquired(outcome) ==
    /\ inv.pc = "api"
    /\ inv' = IF outcome # NoErr
              THEN Caught(inv, outcome)
              ELSE Advance(inv, Continue(Branch(inv.name),
                                         Locals(Branch(inv.name), inv.args), <<>>))
    /\ UNCHANGED <<clientVars, server, orgName, served, prev, stepsVars, authVars, procVars, utilVars, worldVars>>

\* the invocation once call k has completed with a value: the branch resumes
\* when nothing it awaits is pending
Resumed(k, tag) ==
    LET done == [inv EXCEPT !.issued[k].st = tag]
    IN  IF Pending(done.issued) = {}
        THEN Advance(done, Continue(Branch(inv.name), Locals(Branch(inv.name), inv.args),
                                    done.issued))
        ELSE done

\* a downstream call completes with a value
CallReturned(k, tag) ==
    /\ inv.pc = "calling"
    /\ k \in Pending(inv.issued)
    /\ inv' = Resumed(k, tag)
    /\ UNCHANGED <<clientVars, server, orgName, served, prev, stepsVars, authVars, procVars, utilVars, worldVars>>

\* a downstream call throws; the awaiting branch ends in the catch block
CallThrew(k, err) ==
    /\ inv.pc = "calling"
    /\ k \in Pending(inv.issued)
    /\ LET done == [inv EXCEPT !.issued[k].st = "threw"]
       IN  inv' = Caught(done, err)
    /\ UNCHANGED <<clientVars, server, orgName, served, prev, stepsVars, authVars, procVars, utilVars, worldVars>>

\* the wiki service answers a request for the page. A PUT is accepted when
\* its If-Match header names the page's current version (and, without the
\* header, when there is no page yet); the service may also refuse a request
\* outright, leave out the ETag header of a GET, or answer with a status
\* that is ok and a body that is not JSON (its sign-in page, status 203).
PutAccepted(ifMatch) ==
    IF ifMatch = JsUndef THEN page.version = 0
    ELSE page.version > 0 /\ ifMatch.s = Etag(page.version)

WikiAnswer(call, outcome) ==
    IF call.op = "fetch:PUT"
    THEN IF outcome = "refuse" THEN "fail-text"
         ELSE IF outcome = "signin" THEN "ok-text"
         ELSE IF PutAccepted(call.param) THEN "ok-json" ELSE "conflict"
    ELSE IF outcome = "signin" THEN "ok-noetag"
         ELSE IF outcome = "refuse" \/ page.version = 0 THEN "fail-json"
         ELSE IF outcome = "noetag" THEN "ok-noetag" ELSE Etag(page.version)

PageAfter(call, outcome) ==
    IF call.op = "fetch:PUT" /\ outcome \notin {"refuse", "signin"} /\ PutAccepted(call.param)
    THEN [version |-> page.version + 1, by |-> "handler"]
    ELSE page

WikiAnswered(k, outcome) ==
    /\ inv.pc = "calling"
    /\ k \in Pending(inv.issued)
    /\ Branch(inv.name) = "wiki_create_or_update_page"
    /\ inv' = Resumed(k, WikiAnswer(inv.issued[k], outcome))
    /\ page' = PageAfter(inv.issued[k], outcome)
    /\ UNCHANGED <<clientVars, server, orgName, served, prev, stepsVars, authVars, procVars, utilVars, buffered>>

\* another writer saves the page while the upsert is going on
WikiEditedElsewhere ==
    /\ inv.name = "wiki_create_or_update_page"
    /\ inv.pc \in {"connecting", "calling"}
    /\ page.version < MaxVersion
    /\ page' = [version |-> page.version + 1, by |-> "other"]
    /\ UNCHANGED <<clientVars, serverVars, stepsVars, authVars, procVars, utilVars, buffered>>

\* stream.pipe(writeStream): the artifact stream hands a chunk to the write stream
StreamData(k) ==
    /\ inv.pc = "calling"
    /\ k \in Pending(inv.issued)
    /\ inv.issued[k].op = "stream:pipe"
    /\ buffered < MaxChunks
    /\ buffered' = buffered + 1
    /\ UNCHANGED <<clientVars, serverVars, stepsVars, authVars, procVars, utilVars, page>>

\* the write stream puts a chunk on disk
FileFlushed ==
    /\ buffered > 0
    /\ buffered' = buffered - 1
    /\ UNCHANGED <<clientVars, serverVars, stepsVars, authVars, procVars, utilVars, page>>

\* the envelope is sent; the handler is ready for the next request
Respond ==
    /\ inv.pc = "returned"
    /\ prev' = IF inv.result.kind = "throw" THEN "threw"
               ELSE IF inv.thrown # NoErr THEN "caught"
               ELSE IF inv.result.isError THEN "error" ELSE "ok"
    /\ served' = served + 1
    /\ inv' = IdleInv
    /\ UNCHANGED <<clientVars, server, orgName, stepsVars, authVars, procVars, utilVars, worldVars>>

----------------------------------------------------------------------------
(* src/server.ts: convertStepsToXml and escapeXml.                         *)
(* The input is a sequence of characters; the output is the sequence of    *)
(* the pieces the code appends: markup literals, numbers, and one piece    *)
(* per character of text (the character itself or its entity).             *)

Alphabet == {"a", "1", ".", " ", "|", "\n", "\r", "&"}

EscapeAlphabet == {"<", ">", "&", "'", "\"", "l", "t", ";", "|"}

Whitespace == {" ", "\t", "\n", "\r"}
LineTerminators == {"\n", "\r"}
Digits == {"0", "1", "2", "3", "4", "5", "6", "7", "8", "9"}

\* s.split(sep) for a one-character separator
RECURSIVE Split(_, _)
Split(s, sep) ==
    IF \A i \in DOMAIN s : s[i] # sep
    THEN <<s>>
    ELSE LET p == CHOOSE i \in DOMAIN s : s[i] = sep /\ \A j \in 1 .. (i - 1) : s[j] # sep
         IN  <<SubSeq(s, 1, p - 1)>> \o Split(SubSeq(s, p + 1, Len(s)), sep)

\* s.trim()
Trim(s) ==
    IF \A i \in DOMAIN s : s[i] \in Whitespace
    THEN <<>>
    ELSE LET first == CHOOSE i \in DOMAIN s :
                         s[i] \notin Whitespace /\ \A j \in 1 .. (i - 1) : s[j] \in Whitespace
             last == CHOOSE i \in DOMAIN s :
                         s[i] \notin Whitespace /\ \A j \in (i + 1) .. Len(s) : s[j] \in Whitespace
         IN  SubSeq(s, first, last)

\* keep the elements that satisfy the test l => l.trim()
RECURSIVE FilterNonBlank(_)
FilterNonBlank(ls) ==
    IF ls = <<>> THEN <<>>
    ELSE (IF Trim(ls[1]) # <<>> THEN <<ls[1]>> ELSE <<>>) \o FilterNonBlank(Tail(ls))

\* const lines = steps.split("\n").filter(l => l.trim())
StepLines(s) == FilterNonBlank(Split(s, "\n"))

\* lines[i].split("|").map(s => s.trim())
LineParts(line) == LET ps == Split(line, "|") IN [i \in DOMAIN ps |-> Trim(ps[i])]

\* const [stepPart, expectedPart] = ...: the first two elements; a missing
\* second element is undefined, which || treats like the empty string
StepPart(line) == LineParts(line)[1]
ExpectedPart(line) == IF Len(LineParts(line)) >= 2 THEN LineParts(line)[2] ELSE <<>>

\* number of leading characters of s that are in set
RECURSIVE LeadingRun(_, _)
LeadingRun(s, set) ==
    IF s = <<>> \/ s[1] \notin set THEN 0 ELSE 1 + LeadingRun(Tail(s), set)

\* stepPart.match(/^(\d+)\.\s*(.+)$/): group 2 of the match, or <<>> when the
\* pattern does not match (group 2 of a match is never empty)
OrdinalMatch(s) ==
    LET d == LeadingRun(s, Digits)
        rest == SubSeq(s, d + 2, Len(s))
        w == LeadingRun(rest, Whitespace)
        body == IF w < Len(rest) THEN SubSeq(rest, w + 1, Len(rest))
                ELSE SubSeq(rest, Len(rest), Len(rest))
    IN  IF d >= 1 /\ Len(s) >= d + 2 /\ s[d + 1] = "."
           /\ \A i \in DOMAIN body : body[i] \notin LineTerminators
        THEN body
        ELSE <<>>

\* the step part as it is, the match ignored
StepTextKeepOrdinal(line) == StepPart(line)

\* const stepText = stepMatch ? stepMatch[2] : stepPart
StepText(line) ==
    IF OrdinalMatch(StepPart(line)) # <<>> THEN OrdinalMatch(StepPart(line)) ELSE StepPart(line)

Placeholder == <<"Verify step completes successfully">>

\* a replacement table without the entry for "&"
EscapeCharNoAmp(c) ==
    CASE c = "<" -> "&lt;"
      [] c = ">" -> "&gt;"
      [] c = "'" -> "&apos;"
      [] c = "\"" -> "&quot;"
      [] OTHER -> c

EscapeChar(c) ==
    CASE c = "<" -> "&lt;"
      [] c = ">" -> "&gt;"
      [] c = "&" -> "&amp;"
      [] c = "'" -> "&apos;"
      [] c = "\"" -> "&quot;"
      [] OTHER -> c

\* escapeXml(s): one piece per character
EscapeXml(s) == [i \in DOMAIN s |-> EscapeChar(s[i])]

\* const expectedText = expectedPart || "Verify step completes successfully",
\* then escapeXml(expectedText); the placeholder has no special character
EscapedExpected(line) ==
    IF ExpectedPart(line) # <<>> THEN EscapeXml(ExpectedPart(line)) ELSE Placeholder

StepsOpen == "<steps id=\"0\" last=\""
StepsOpenEnd == "\">"
StepOpen == "<step id=\""
StepOpenEnd == "\" type=\"ActionStep\"><parameterizedString isformatted=\"true\">"
StepMid == "</parameterizedString><parameterizedString isformatted=\"true\">"
StepClose == "</parameterizedString></step>"
StepsClose == "</steps>"

\* the loop index used as the id
StepIdZeroBased(i) == i

\* the id attribute of the step made in loop iteration i (i counts from 0)
StepId(i) == i + 1

\* the pieces appended to xml in loop iteration i (i counts from 0)
StepXml(lines, i) ==
    <<StepOpen, ToString(StepId(i)), StepOpenEnd>> \o EscapeXml(StepText(lines[i + 1]))
    \o <<StepMid>> \o EscapedExpected(lines[i + 1]) \o <<StepClose>>

RECURSIVE StepsXmlFrom(_, _)
StepsXmlFrom(lines, i) ==
    IF i >= Len(lines) THEN <<>> ELSE StepXml(lines, i) \o StepsXmlFrom(lines, i + 1)

convertStepsToXml(s) ==
    LET lines == StepLines(s)
    IN  <<StepsOpen, ToString(Len(lines)), StepsOpenEnd>> \o StepsXmlFrom(lines, 0)
        \o <<StepsClose>>

\* a caller passes steps to convertStepsToXml
ConvertSteps ==
    /\ xml = <<>>
    /\ xml' = convertStepsToXml(steps)
    /\ UNCHANGED <<steps, clientVars, serverVars, worldVars, authVars, procVars, utilVars>>

----------------------------------------------------------------------------
(* Specifications *)

ClientIdle ==
    /\ clientPromise = NoPromise
    /\ constructions = 0
    /\ callers = [c \in Caller |-> IdleCaller]

ServerIdle ==
    /\ server = "none"
    /\ orgName = ""
    /\ inv = IdleInv
    /\ served = 0
    /\ prev = "none"

StepsIdle ==
    /\ steps = <<>>
    /\ xml = <<>>

WorldIdle ==
    /\ page = NoPage
    /\ buffered = 0

AuthIdle ==
    /\ pat = <<>>
    /\ header = <<>>

\* index.ts has not run, no ListTools request was made, one server at most
ProcIdle ==
    /\ proc = NotStarted
    /\ listed = <<>>
    /\ later = <<>>

UtilIdle ==
    /\ input = <<>>
    /\ output = <<>>

\* the server process: module loaded, createServer not yet called
Init == config = NoConfig /\ ClientIdle /\ ServerIdle /\ StepsIdle /\ WorldIdle /\ AuthIdle /\ ProcIdle /\ UtilIdle

Next ==
    \/ \E c \in Configs : CreateServer(c)
    \/ \E name \in ToolInputs : \E args \in ArgsFor(name) : CallTool(name, args)
    \/ Connected
    \/ \E outcome \in Thrown \cup {NoErr} : ApiAcquired(outcome)
    \/ \E k \in Pending(inv.issued) :
          \E tag \in ResultTags(Branch(inv.name), inv.issued[k]) : CallReturned(k, tag)
    \/ \E k \in Pending(inv.issued) : \E err \in Thrown : CallThrew(k, err)
    \/ \E k \in Pending(inv.issued) : \E outcome \in {"serve", "refuse", "noetag", "signin"} :
          WikiAnswered(k, outcome)
    \/ WikiEditedElsewhere
    \/ \E k \in Pending(inv.issued) : StreamData(k)
    \/ FileFlushed
    \/ Respond

Spec == Init /\ [][Next]_vars

\* an AzureDevOpsClient used on its own, with any configuration
InitClient == config \in Configs /\ ClientIdle /\ ServerIdle /\ StepsIdle /\ WorldIdle /\ AuthIdle /\ ProcIdle /\ UtilIdle

NextClient ==
    \/ \E c \in Caller : GetWebApiClient(c)
    \/ \E c \in Caller : Resume(c)
    \/ \E c \in Caller : CallAgain(c)

SpecClient == InitClient /\ [][NextClient]_vars

\* the process as a whole: started by index.ts or by a host that calls
\* createServer itself, with ListTools requests and a second server; the
\* tools invoked are those that read orgName, one SDK tool and an unknown name
ProcessTools == OrgBranches \cup {"core_list_project_teams", "no_such_tool"}

NextProcess ==
    \/ \E env \in Envs : \E connect \in Thrown \cup {NoErr} : Main(env, connect)
    \/ \E c \in Configs : CreateServer(c)
    \/ \E c \in Configs : CreateServerAgain(c)
    \/ ListTools
    \/ \E name \in ProcessTools : \E args \in ArgsFor(name) : CallTool(name, args)
    \/ Connected
    \/ \E outcome \in Thrown \cup {NoErr} : ApiAcquired(outcome)
    \/ \E k \in Pending(inv.issued) :
          \E tag \in ResultTags(Branch(inv.name), inv.issued[k]) : CallReturned(k, tag)
    \/ \E k \in Pending(inv.issued) : \E err \in Thrown : CallThrew(k, err)
    \/ Respond

SpecProcess == Init /\ [][NextProcess]_vars

\* convertStepsToXml applied to any text over Alphabet of at most MaxLen characters
InitSteps ==
    /\ config = NoConfig /\ ClientIdle /\ ServerIdle /\ WorldIdle /\ AuthIdle /\ ProcIdle /\ UtilIdle
    /\ steps \in SeqsUpTo(Alphabet, MaxLen)
    /\ xml = <<>>

NextSteps == ConvertSteps

SpecSteps == InitSteps /\ [][NextSteps]_vars

\* convertStepsToXml applied to any text over EscapeAlphabet of at most
\* MaxEscLen characters: the characters escapeXml replaces, the letters of
\* an entity, and the separator
InitEscape ==
    /\ config = NoConfig /\ ClientIdle /\ ServerIdle /\ WorldIdle /\ AuthIdle /\ ProcIdle /\ UtilIdle
    /\ steps \in SeqsUpTo(EscapeAlphabet, MaxEscLen)
    /\ xml = <<>>

SpecEscape == InitEscape /\ [][NextSteps]_vars

\* getPatAuthHeader applied to any token over CodeUnits of at most MaxPatLen
\* code units
InitAuth ==
    /\ config = NoConfig /\ ClientIdle /\ ServerIdle /\ StepsIdle /\ WorldIdle /\ ProcIdle /\ UtilIdle
    /\ pat \in SeqsUpTo(CodeUnits, MaxPatLen)
    /\ header = <<>>

NextAuth == GetPatAuthHeader

SpecAuth == InitAuth /\ [][NextAuth]_vars

----------------------------------------------------------------------------
(* utils.ts: the enum helpers *)

\* an enum object by its entries, in the order of Object.entries: index
\* keys first, then the names. A numeric member Low = 0 of a TypeScript
\* enum is the two entries Low: 0 and "0": "Low".
Entry(key, value) == [key |-> key, value |-> value]
Severity ==
    <<Entry(<<"0">>, JsStr("Low")), Entry(<<"2">>, JsStr("High")),
      Entry(<<"L", "o", "w">>, JsNum(0)), Entry(<<"H", "i", "g", "h">>, JsNum(2))>>
\* an enum with a string member
Mixed ==
    <<Entry(<<"3">>, JsStr("Code")),
      Entry(<<"C", "o", "d", "e">>, JsNum(3)), Entry(<<"T", "a", "g">>, JsStr("tag"))>>
EnumObjects == {Severity, Mixed}

\* the entries createEnumMapping copies: those with a number as value
NumericEntries(enumObject) == {i \in DOMAIN enumObject : enumObject[i].value.t = "number"}

\* createEnumMapping: lower-cased key -> value, a later entry replacing an
\* earlier one with the same lower-cased key
createEnumMapping(enumObject) ==
    LET from(k) == {i \in NumericEntries(enumObject) : ToLowerCase(enumObject[i].key) = k}
    IN  [k \in {ToLowerCase(enumObject[i].key) : i \in NumericEntries(enumObject)} |->
            enumObject[CHOOSE i \in from(k) : \A j \in from(k) : j <= i].value]

\* mapping[key] for a mapping that is an object literal
MappingLookup(mapping, key) ==
    IF key \in DOMAIN mapping THEN mapping[key]
    ELSE IF CharsToString(key) \in ObjectPrototypeKeys THEN JsFn
    ELSE JsUndef

\* a ?? b
JsNullish(a, b) == IF a = JsUndef THEN b ELSE a

mapStringToEnum(value, enumObject, defaultValue) ==
    IF ~value.given \/ value.chars = <<>> THEN defaultValue
    ELSE LET enumMapping == createEnumMapping(enumObject)
         IN  JsNullish(MappingLookup(enumMapping, ToLowerCase(value.chars)), defaultValue)

Defined(v) == v # JsUndef

mapStringArrayToEnum(values, enumObject) ==
    IF ~values.given THEN <<>>
    ELSE SelectSeq([i \in DOMAIN values.list |->
                        mapStringToEnum(Chars(values.list[i]), enumObject, JsUndef)],
                   Defined)

EnumStrings ==
    {<<>>, <<"0">>, <<"L", "o", "w">>, <<"l", "o", "w">>, <<"H", "I", "G", "H">>,
     <<"C", "o", "d", "e">>, <<"T", "a", "g">>, <<"b", "o", "g", "u", "s">>,
     <<"c", "o", "n", "s", "t", "r", "u", "c", "t", "o", "r">>}
EnumArrayStrings ==
    {<<>>, <<"l", "o", "w">>, <<"H", "I", "G", "H">>, <<"b", "o", "g", "u", "s">>,
     <<"c", "o", "n", "s", "t", "r", "u", "c", "t", "o", "r">>}
EnumDefaults == {JsUndef, JsNum(0), JsNum(7)}
NoList == [given |-> FALSE, list |-> <<>>]
List(l) == [given |-> TRUE, list |-> l]

MapInputs ==
    {[fn |-> "mapStringToEnum", value |-> v, values |-> NoList, enumObject |-> e,
      defaultValue |-> d] :
        v \in {NoChars} \cup {Chars(cs) : cs \in EnumStrings}, e \in EnumObjects, d \in EnumDefaults}
    \cup
    {[fn |-> "mapStringArrayToEnum", value |-> NoChars, values |-> l, enumObject |-> e,
      defaultValue |-> JsUndef] :
        l \in {NoList} \cup {List(x) : x \in SeqsUpTo(EnumArrayStrings, MaxValues)},
        e \in EnumObjects}

MapStringToEnum ==
    /\ input # <<>> /\ output = <<>>
    /\ input[1].fn = "mapStringToEnum"
    /\ output' = <<[value |-> mapStringToEnum(input[1].value, input[1].enumObject,
                                               input[1].defaultValue),
                    list |-> <<>>]>>
    /\ UNCHANGED <<input, clientVars, serverVars, stepsVars, worldVars, authVars, procVars>>

MapStringArrayToEnum ==
    /\ input # <<>> /\ output = <<>>
    /\ input[1].fn = "mapStringArrayToEnum"
    /\ output' = <<[value |-> JsUndef,
                    list |-> mapStringArrayToEnum(input[1].values, input[1].enumObject)]>>
    /\ UNCHANGED <<input, clientVars, serverVars, stepsVars, worldVars, authVars, procVars>>

InitEnum ==
    /\ config = NoConfig /\ ClientIdle /\ ServerIdle /\ StepsIdle /\ WorldIdle /\ ProcIdle
    /\ AuthIdle
    /\ input \in {<<i>> : i \in MapInputs}
    /\ output = <<>>

NextEnum == MapStringToEnum \/ MapStringArrayToEnum

SpecEnum == InitEnum /\ [][NextEnum]_vars

----------------------------------------------------------------------------
(* utils.ts: encodeFormattedValue *)

\* value.replace(/</g, "&lt;").replace(/>/g, "&gt;")
RECURSIVE ReplaceAngles(_)
ReplaceAngles(cs) ==
    IF cs = <<>> THEN <<>>
    ELSE (CASE cs[1] = "<" -> <<"&", "l", "t", ";">>
            [] cs[1] = ">" -> <<"&", "g", "t", ";">>
            [] OTHER -> <<cs[1]>>)
         \o ReplaceAngles(Tail(cs))

encodeFormattedValue(value, format) ==
    IF ~value.given \/ value.chars = <<>> \/ format # JsStr("Markdown") THEN value
    ELSE Chars(ReplaceAngles(value.chars))

ValueChars == {"<", ">", "a"}
Formats == {JsUndef, JsStr("Html"), JsStr("Markdown"), JsStr("markdown")}
FormatInputs ==
    {[fn |-> "encodeFormattedValue", value |-> v, format |-> f] :
        v \in {NoChars} \cup {Chars(cs) : cs \in SeqsUpTo(ValueChars, MaxValueLen)},
        f \in Formats}

EncodeFormattedValue ==
    /\ input # <<>> /\ output = <<>>
    /\ input[1].fn = "encodeFormattedValue"
    /\ output' = <<encodeFormattedValue(input[1].value, input[1].format)>>
    /\ UNCHANGED <<input, clientVars, serverVars, stepsVars, worldVars, authVars, procVars>>

InitFormat ==
    /\ config = NoConfig /\ ClientIdle /\ ServerIdle /\ StepsIdle /\ WorldIdle /\ ProcIdle
    /\ AuthIdle
    /\ input \in {<<i>> : i \in FormatInputs}
    /\ output = <<>>

NextFormat == EncodeFormattedValue

SpecFormat == InitFormat /\ [][NextFormat]_vars

ValidConfig(c) == c.personalAccessToken # "" /\ c.organizationUrl # EmptyUrl


----------------------------------------------------------------------------
(* C1: single-flight connection. Whatever the number of getWebApiClient    *)
(* calls and their interleaving, createPatClient has been invoked exactly  *)
(* once as soon as one call was made, every caller that has resumed got    *)
(* the outcome of that one construction, and with a usable configuration   *)
(* that outcome is the one WebApi handle, also for calls made later.       *)

C1_SingleFlight ==
    /\ constructions <= 1
    /\ (\E c \in Caller : callers[c].calls > 0) => constructions = 1
    /\ \A c \in Caller : callers[c].pc = "done" =>
          /\ callers[c].got = clientPromise
          /\ callers[c].got.id = 1
          /\ ValidConfig(config) => callers[c].got.state = "fulfilled"
    /\ \A c, d \in Caller :
          callers[c].pc = "done" /\ callers[d].pc = "done" => callers[c].got = callers[d].got

\* one caller has the handle from its second call while two others still wait
C1_Witness ==
    /\ ValidConfig(config)
    /\ constructions = 1
    /\ callers[1].pc = "done" /\ callers[1].calls = 2 /\ callers[1].got.state = "fulfilled"
    /\ callers[2].pc = "waiting" /\ callers[3].pc = "waiting"


----------------------------------------------------------------------------
(* C2: error containment. The CallTool handler never lets an error out:    *)
(* when obtaining the connection, an API object or a downstream call threw *)
(* an Error with message m, the handler returns the envelope               *)
(* {isError: true, text: "Error: " + m}; and once an invocation has been   *)
(* answered, failed or not, the process is in the one state (server        *)
(* created, the organization name and the memoized connection as derived   *)
(* from the configuration, the handler idle) from which the next           *)
(* invocation is handled.                                                  *)

C2_ErrorContained ==
    /\ inv.result.kind # "throw"
    /\ prev # "threw"
    /\ (inv.pc = "returned" /\ inv.thrown # NoErr /\ inv.thrown.isErrorObject) =>
          inv.result = Envelope(TRUE, "Error: " \o inv.thrown.message)
    /\ (inv.pc = "returned" /\ inv.thrown # NoErr) => inv.result.isError
    /\ (\E k \in DOMAIN inv.issued : inv.issued[k].st = "threw") =>
          inv.pc = "returned" /\ inv.thrown # NoErr
    /\ (served > 0 /\ inv.pc = "idle") =>
          /\ server = "created"
          /\ orgName = OrgNameOf(config.organizationUrl)
          /\ clientPromise = createPatClient(config, 1)
          /\ constructions = 1
          /\ inv = IdleInv

\* after an invocation that ended in the catch block, the next one succeeds
C2_Witness ==
    /\ prev = "caught"
    /\ inv.pc = "returned"
    /\ inv.result.kind = "envelope"
    /\ ~inv.result.isError
    /\ inv.issued # <<>>

----------------------------------------------------------------------------
(* C3: unknown tool. An invocation whose name is not in the catalog never  *)
(* asks for an API object and never issues a downstream call, and it ends  *)
(* with the envelope {isError: true, text: "Unknown tool: " + name}.       *)

C3_UnknownTool ==
    (inv.pc # "idle" /\ inv.name \notin CatalogNames) =>
        /\ inv.pc \in {"connecting", "returned"}
        /\ inv.issued = <<>>
        /\ inv.thrown = NoErr
        /\ inv.pc = "returned" =>
              inv.result = Envelope(TRUE, "Unknown tool: " \o inv.name)

C3_Witness ==
    /\ inv.pc = "returned"
    /\ inv.name = "no_such_tool"
    /\ inv.args # EmptyArgs
    /\ inv.result = Envelope(TRUE, "Unknown tool: no_such_tool")

----------------------------------------------------------------------------
(* C4: catalog/dispatcher bijection. The catalog names and the case labels *)
(* are the same set, neither list repeats a name, and every invocation of  *)
(* a catalog name runs the branch of that name, never the default branch.  *)

C4_Bijection ==
    /\ SeqRange(Catalog) = SeqRange(CaseLabels)
    /\ Cardinality(SeqRange(Catalog)) = Len(Catalog)
    /\ Cardinality(SeqRange(CaseLabels)) = Len(CaseLabels)
    /\ (inv.pc # "idle" /\ inv.name \in CatalogNames) =>
          /\ Branch(inv.name) = inv.name
          /\ inv.result # UnknownTool(inv.name)
    /\ inv.pc \in {"api", "calling"} => inv.name \in CatalogNames

\* the last tool of the catalog has been dispatched to its branch and answered
C4_Witness ==
    /\ inv.pc = "returned"
    /\ inv.name = Catalog[Len(Catalog)]
    /\ inv.issued # <<>>
    /\ ~inv.result.isError

Rejections == {"threw", "fail-json", "fail-text"}


----------------------------------------------------------------------------
(* C5: every downstream failure is flagged. Whenever the last downstream   *)
(* request of an invocation was rejected (a thrown error or a non-success  *)
(* HTTP response), the returned envelope has isError = true.               *)

C5_FailureFlagged ==
    (inv.pc = "returned" /\ inv.issued # <<>> /\ Last(inv.issued).st \in Rejections) =>
        inv.result.isError

----------------------------------------------------------------------------
(* C6: bulk operations are sequential and abort on first failure. In the   *)
(* four bulk branches at most one call is in flight, the calls issued are  *)
(* the calls for a prefix of the input list in input order, each issued    *)
(* only after all earlier ones succeeded; when a call throws, no further   *)
(* call is issued and the envelope carries that call's message; when none  *)
(* throws, exactly one call per item was issued and the result lists the   *)
(* items in input order.                                                   *)

C6_BulkSequential ==
    (inv.name \in BulkBranches /\ inv.args.items.given) =>
        LET ids == inv.args.items.ids
            n == Len(inv.issued)
        IN  /\ Cardinality(Pending(inv.issued)) <= 1
            /\ n <= Len(ids)
            /\ \A i \in 1 .. n :
                  /\ inv.issued[i].op = BulkMethod[inv.name]
                  /\ inv.issued[i].item = ids[i]
                  /\ i < n => inv.issued[i].st = "result"
            /\ (inv.pc = "returned" /\ inv.thrown # NoErr) =>
                  /\ inv.result = Catch(inv.thrown)
                  /\ n > 0 => inv.issued[n].st = "threw"
            /\ (inv.pc = "returned" /\ inv.thrown = NoErr) =>
                  /\ n = Len(ids)
                  /\ \A i \in 1 .. n : inv.issued[i].st = "result"
                  /\ inv.result = Envelope(FALSE, StringifyList(ids))

\* the second of three items failed: one call committed, the third never issued
C6_Witness ==
    /\ inv.name = "wit_add_child_work_items"
    /\ inv.pc = "returned"
    /\ inv.args.items.ids = <<2, 1, 2>>
    /\ Len(inv.issued) = 2
    /\ inv.issued[1].st = "result"
    /\ inv.issued[2].st = "threw"
    /\ inv.result = Envelope(TRUE, "Error: 401 Unauthorized")

DeclaredPrStatus == "Active" :> 1 @@ "Abandoned" :> 2 @@ "Completed" :> 3 @@ "All" :> 4
                    @@ "NotSet" :> 0


----------------------------------------------------------------------------
(* C7: pull-request status mapping. The status that                        *)
(* repo_list_pull_requests_by_repo_or_project sends downstream is the      *)
(* declared string's own code (Active 1, Abandoned 2, Completed 3, All 4,  *)
(* NotSet 0), and 1 for an absent or undeclared string.                    *)

C7_StatusMapping ==
    (inv.name = "repo_list_pull_requests_by_repo_or_project" /\ inv.issued # <<>>) =>
        inv.issued[1].param =
            IF inv.args.status.t = "string" /\ inv.args.status.s \in DOMAIN DeclaredPrStatus
            THEN JsNum(DeclaredPrStatus[inv.args.status.s])
            ELSE JsNum(1)

EnumBranches == {"repo_update_pull_request", "repo_create_pull_request_thread",
                 "repo_update_pull_request_thread", "wit_get_work_item",
                 "wit_get_work_items_batch_by_ids", "wit_get_query"}

EnumTable(name) ==
    CASE name = "repo_update_pull_request" -> PrUpdateStatusMap
      [] name \in {"repo_create_pull_request_thread", "repo_update_pull_request_thread"} ->
            ThreadStatusMap
      [] name \in {"wit_get_work_item", "wit_get_work_items_batch_by_ids"} -> WorkItemExpandMap
      [] OTHER -> QueryExpandMap

EnumArg(name, args) ==
    IF name \in {"wit_get_work_item", "wit_get_work_items_batch_by_ids", "wit_get_query"}
    THEN args.expand ELSE args.status


----------------------------------------------------------------------------
(* C8: unrecognized enum strings fall back to a default. In the six        *)
(* branches with a string-to-code table, a supplied string that is not a   *)
(* key of the table makes the branch pass a number downstream.             *)

C8_EnumFallback ==
    (/\ inv.name \in EnumBranches
     /\ inv.issued # <<>>
     /\ EnumArg(inv.name, inv.args).t = "string"
     /\ EnumArg(inv.name, inv.args).s \notin DOMAIN EnumTable(inv.name)) =>
        inv.issued[1].param.t = "number"

----------------------------------------------------------------------------
(* Reading the output of convertStepsToXml back *)

\* the position of the i-th occurrence of piece tok in x
NthPos(x, tok, i) ==
    CHOOSE p \in DOMAIN x :
        x[p] = tok /\ Cardinality({q \in 1 .. (p - 1) : x[q] = tok}) = i - 1

Count(x, tok) == Cardinality({p \in DOMAIN x : x[p] = tok})

\* the id, the step text and the expected-result text of the i-th step element
IdOf(x, i) == x[NthPos(x, StepOpen, i) + 1]
StepTextOf(x, i) == SubSeq(x, NthPos(x, StepOpenEnd, i) + 1, NthPos(x, StepMid, i) - 1)
ExpectedOf(x, i) == SubSeq(x, NthPos(x, StepMid, i) + 1, NthPos(x, StepClose, i) - 1)

\* the input line a character position belongs to (lines count from 0)
LineOf(s, j) == Cardinality({m \in 1 .. (j - 1) : s[m] = "\n"})

\* the numbers of the lines that have a character other than whitespace
NonBlankLineNumbers(s) == {LineOf(s, j) : j \in {m \in DOMAIN s : s[m] \notin Whitespace}}

\* the characters of line number l
LineText(s, l) ==
    LET idx == {j \in DOMAIN s : LineOf(s, j) = l /\ s[j] # "\n"}
    IN  [i \in 1 .. Cardinality(idx) |->
            s[CHOOSE j \in idx : Cardinality({m \in idx : m < j}) = i - 1]]

\* the i-th non-blank line
NthNonBlankLine(s, i) ==
    LineText(s, CHOOSE l \in NonBlankLineNumbers(s) :
                    Cardinality({m \in NonBlankLineNumbers(s) : m < l}) = i - 1)

RECURSIVE IsSubsequence(_, _)
IsSubsequence(a, b) ==
    IF a = <<>> THEN TRUE
    ELSE IF b = <<>> THEN FALSE
    ELSE IF a[1] = b[1] THEN IsSubsequence(Tail(a), Tail(b))
    ELSE IsSubsequence(a, Tail(b))

----------------------------------------------------------------------------
(* C9: step count and numbering. The output has exactly one step element   *)
(* per non-blank input line and none for blank lines, in input order (the  *)
(* i-th element's step text is made of characters of the i-th non-blank    *)
(* line), with ids 1, 2, ..., k, and the steps element's last attribute    *)
(* is k.                                                                   *)

C9_StepCountAndIds ==
    xml # <<>> =>
        LET k == Cardinality(NonBlankLineNumbers(steps))
        IN  /\ xml[1] = StepsOpen /\ xml[2] = ToString(k) /\ xml[3] = StepsOpenEnd
            /\ Last(xml) = StepsClose
            /\ Count(xml, StepOpen) = k
            /\ Count(xml, StepClose) = k
            /\ \A i \in 1 .. k :
                  /\ IdOf(xml, i) = ToString(i)
                  /\ IsSubsequence(StepTextOf(xml, i), EscapeXml(NthNonBlankLine(steps, i)))

\* two steps from three lines, the middle one blank
C9_Witness ==
    /\ steps = <<"a", "\n", "\n", "1">>
    /\ Count(xml, StepOpen) = 2
    /\ IdOf(xml, 2) = "2"
    /\ StepTextOf(xml, 2) = <<"1">>

AfterFirstPipe(line) ==
    LET p == CHOOSE i \in DOMAIN line : line[i] = "|" /\ \A j \in 1 .. (i - 1) : line[j] # "|"
    IN  Trim(SubSeq(line, p + 1, Len(line)))


----------------------------------------------------------------------------
(* C10: split on the first '|' only. For a non-blank line with a '|', the  *)
(* expected-result text is all of the line after its first '|' (trimmed,   *)
(* and the placeholder when that is empty): nothing of the line is dropped.*)

C10_SplitOnFirstPipe ==
    xml # <<>> =>
        \A i \in 1 .. Cardinality(NonBlankLineNumbers(steps)) :
            LET line == NthNonBlankLine(steps, i)
            IN  (\E j \in DOMAIN line : line[j] = "|") =>
                    ExpectedOf(xml, i) =
                        IF AfterFirstPipe(line) = <<>> THEN Placeholder
                        ELSE EscapeXml(AfterFirstPipe(line))

\* the part of a line before its first '|' (the whole line without one), trimmed
BeforeFirstPipe(line) ==
    IF \A i \in DOMAIN line : line[i] # "|" THEN Trim(line)
    ELSE LET p == CHOOSE i \in DOMAIN line :
                      line[i] = "|" /\ \A j \in 1 .. (i - 1) : line[j] # "|"
         IN  Trim(SubSeq(line, 1, p - 1))

\* s begins with one or more digits followed by a period
HasOrdinal(s) ==
    LET d == LeadingRun(s, Digits) IN d >= 1 /\ Len(s) >= d + 1 /\ s[d + 1] = "."

\* s without its leading digits and period, trimmed
WithoutOrdinal(s) == Trim(SubSeq(s, LeadingRun(s, Digits) + 2, Len(s)))

----------------------------------------------------------------------------
(* C11: ordinal stripping and placeholder. For every non-blank line, the   *)
(* emitted step text is the step part without its leading ordinal and      *)
(* period when it begins with one, and the trimmed step part otherwise;    *)
(* when the line has no '|' or nothing but whitespace after it, the        *)
(* expected-result text is exactly the placeholder.                        *)

StrippedStepPart(part) ==
    IF /\ HasOrdinal(part)
       /\ WithoutOrdinal(part) # <<>>
       /\ \A j \in DOMAIN WithoutOrdinal(part) : WithoutOrdinal(part)[j] \notin LineTerminators
    THEN WithoutOrdinal(part)
    ELSE part

(* C11, as amended: the ordinal, its period and the whitespace after it    *)
(* are removed when at least one further character follows on the line; a  *)
(* step part that is only an ordinal and a period (or whose remainder has  *)
(* a carriage return) is emitted unchanged. The placeholder part is as     *)
(* claimed.                                                                *)

----------------------------------------------------------------------------
(* Reading escaped text back *)

Entities == {"&lt;", "&gt;", "&amp;", "&apos;", "&quot;"}

\* the characters of an entity, and the character it stands for
EntityChars(e) ==
    CASE e = "&lt;" -> <<"&", "l", "t", ";">>
      [] e = "&gt;" -> <<"&", "g", "t", ";">>
      [] e = "&amp;" -> <<"&", "a", "m", "p", ";">>
      [] e = "&apos;" -> <<"&", "a", "p", "o", "s", ";">>
      [] e = "&quot;" -> <<"&", "q", "u", "o", "t", ";">>

EntityMeaning(e) ==
    CASE e = "&lt;" -> "<"
      [] e = "&gt;" -> ">"
      [] e = "&amp;" -> "&"
      [] e = "&apos;" -> "'"
      [] e = "&quot;" -> "\""

\* the characters of the emitted text: the pieces written out one after
\* another (the placeholder, which has no special character, stays one token)
RECURSIVE TextChars(_)
TextChars(pieces) ==
    IF pieces = <<>> THEN <<>>
    ELSE (IF pieces[1] \in Entities THEN EntityChars(pieces[1]) ELSE <<pieces[1]>>)
         \o TextChars(Tail(pieces))

IsPrefix(a, b) == Len(a) <= Len(b) /\ SubSeq(b, 1, Len(a)) = a

EntityAt(s, i) == {e \in Entities : IsPrefix(EntityChars(e), SubSeq(s, i, Len(s)))}

\* no raw markup character, and every '&' starts an entity
WellFormedText(s) ==
    \A i \in DOMAIN s :
        /\ s[i] \notin {"<", ">", "\"", "'"}
        /\ s[i] = "&" => EntityAt(s, i) # {}

\* what an XML reader makes of the characters (a stray '&' is kept)
RECURSIVE XmlUnescape(_)
XmlUnescape(s) ==
    IF s = <<>> THEN <<>>
    ELSE IF s[1] = "&" /\ EntityAt(s, 1) # {}
    THEN LET e == CHOOSE x \in EntityAt(s, 1) : TRUE
         IN  <<EntityMeaning(e)>> \o XmlUnescape(SubSeq(s, Len(EntityChars(e)) + 1, Len(s)))
    ELSE <<s[1]>> \o XmlUnescape(Tail(s))

----------------------------------------------------------------------------
(* C12: the output is well-formed for every input. In the characters of    *)
(* every emitted step text and expected-result text there is no raw '<',   *)
(* '>', '"' or ''' and every '&' starts one of the five entities; each     *)
(* special character is replaced exactly once, so unescaping the emitted   *)
(* text gives back the step text and the expected-result text that were    *)
(* escaped (the placeholder when there was no expected-result text).       *)

C12_EscapedWellFormed ==
    xml # <<>> =>
        \A i \in 1 .. Len(StepLines(steps)) :
            LET line == StepLines(steps)[i]
                stepOut == TextChars(StepTextOf(xml, i))
                expectedOut == TextChars(ExpectedOf(xml, i))
            IN  /\ WellFormedText(stepOut)
                /\ WellFormedText(expectedOut)
                /\ XmlUnescape(stepOut) = StepText(line)
                /\ XmlUnescape(expectedOut) =
                      IF ExpectedPart(line) = <<>> THEN Placeholder ELSE ExpectedPart(line)

\* an '&' in the step text, a '<' and a '"' in the expected-result text
C12_Witness ==
    /\ steps = <<"&", "|", "<", "\"">>
    /\ xml # <<>>
    /\ StepTextOf(xml, 1) = <<"&amp;">>
    /\ ExpectedOf(xml, 1) = <<"&lt;", "&quot;">>

----------------------------------------------------------------------------
(* Client-side name filtering, as the specification words it *)

SameLetter(a, b) == a = b \/ {a, b} = {"A", "a"} \/ {a, b} = {"B", "b"}

\* the name has the filter in it, letter case aside
ContainsIgnoringCase(cs, part) ==
    \E i \in 0 .. (Len(cs) - Len(part)) :
        \A j \in 1 .. Len(part) : SameLetter(cs[i + j], part[j])

\* the fetched items a filter selects, in fetched order
Selected(l, filter) ==
    IF filter.given /\ filter.chars # <<>>
    THEN SelectSeq(l, LAMBDA x : x.hasName /\ ContainsIgnoringCase(x.name, filter.chars))
    ELSE l

\* at most top elements of l after the first skip
Page(l, skip, top) ==
    LET n == IF Len(l) - skip < top THEN Len(l) - skip ELSE top
    IN  [i \in 1 .. (IF n > 0 THEN n ELSE 0) |-> l[skip + i]]

\* the invocation of a list tool has returned the envelope made from a fetched list
ListReturned(name) ==
    /\ inv.pc = "returned" /\ inv.name = name /\ inv.thrown = NoErr
    /\ Len(inv.issued) = 1 /\ inv.issued[1].st # "threw"

FilterOf(args) ==
    IF inv.name = "core_list_projects" THEN args.projectNameFilter ELSE args.repoNameFilter

----------------------------------------------------------------------------
(* C13: client-side name filtering. For core_list_projects and             *)
(* repo_list_repos_by_project, for every fetched list and non-empty filter *)
(* the returned list is exactly the fetched items whose name contains the  *)
(* filter case-insensitively, in fetched order (items without a name       *)
(* excluded); with an empty or absent filter it is the fetched list.       *)

C13_NameFilter ==
    \A name \in {"core_list_projects", "repo_list_repos_by_project"} :
        ListReturned(name) =>
            inv.result = Envelope(FALSE,
                Stringify(ListTag(Selected(FetchedList(inv.issued[1].st), FilterOf(inv.args)))))

(* C13, as amended: core_list_projects returns that list;                  *)
(* repo_list_repos_by_project returns the page of it that starts after     *)
(* skip elements (default 0) and has at most top elements (default 100),   *)
(* for skip and top that are non-negative integers.                        *)

C13_NameFilterThenPage ==
    /\ ListReturned("core_list_projects") =>
          inv.result = Envelope(FALSE,
              Stringify(ListTag(Selected(FetchedList(inv.issued[1].st),
                                         inv.args.projectNameFilter))))
    /\ ListReturned("repo_list_repos_by_project") =>
          LET skip == IF inv.args.skip = JsUndef THEN 0 ELSE inv.args.skip.n
              top == IF inv.args.top = JsUndef THEN 100 ELSE inv.args.top.n
          IN  inv.result = Envelope(FALSE,
                  Stringify(ListTag(Page(Selected(FetchedList(inv.issued[1].st),
                                                  inv.args.repoNameFilter), skip, top))))

\* of three repositories two match "aB"; the page is the second of them
C13_Witness ==
    /\ ListReturned("repo_list_repos_by_project")
    /\ inv.args.repoNameFilter = Chars(<<"a", "B">>)
    /\ inv.args.skip = JsNum(1) /\ inv.args.top = JsNum(1)
    /\ inv.issued[1].st = ListTag(<<Named(<<"A", "b">>), Unnamed, Named(<<"A", "b">>)>>)
    /\ inv.result.text = Stringify(ListTag(<<Named(<<"A", "b">>)>>))

\* the bag without the fields the tool does not declare
Stripped(name, args) ==
    [f \in DOMAIN args |->
        IF ArgName(name, f) \in DeclaredProperties[name] THEN args[f] ELSE EmptyArgs[f]]

\* the fields of the bag that the tool does not declare but the caller sent
UndeclaredSent(name, args) ==
    {f \in DOMAIN args : ArgName(name, f) \notin DeclaredProperties[name]
                         /\ args[f] # EmptyArgs[f]}

----------------------------------------------------------------------------
(* C14: undeclared argument fields never reach the external service. For   *)
(* every catalog tool, no branch reads a field its descriptor does not     *)
(* declare, and an invocation's downstream requests (each call, its        *)
(* parameters and what it is made from) and its envelope are those the     *)
(* same invocation gives for the bag without its undeclared fields, the    *)
(* service answering alike.                                                *)

C14_UndeclaredIgnored ==
    inv.name \in CatalogNames =>
        LET b == Branch(inv.name)
            twin == Locals(b, Stripped(inv.name, inv.args))
        IN  /\ Destructured[b] \subseteq DeclaredProperties[inv.name]
            /\ \A k \in DOMAIN inv.issued :
                  LET step == Continue(b, twin, SubSeq(inv.issued, 1, k - 1))
                  IN  /\ step.do = "call"
                      /\ [inv.issued[k] EXCEPT !.st = "pending"] =
                            [step.calls[1] EXCEPT !.locals = twin]
            /\ (/\ inv.pc = "returned"
                /\ \A k \in DOMAIN inv.issued : inv.issued[k].st # "threw"
                /\ ~(inv.issued = <<>> /\ inv.thrown \in Thrown)) =>
                  LET step == Continue(b, twin, inv.issued)
                  IN  \/ step.do = "return" /\ inv.thrown = NoErr /\ inv.result = step.env
                      \/ step.do = "throw" /\ inv.thrown = step.err
                                           /\ inv.result = Catch(step.err)

\* wit_get_work_item declares expand but no status: a status is sent along,
\* and the request is the one made without it
C14_Witness ==
    /\ inv.name = "wit_get_work_item"
    /\ inv.args = AllArgs
    /\ "status" \in UndeclaredSent(inv.name, inv.args)
    /\ "extra" \in UndeclaredSent(inv.name, inv.args)
    /\ inv.pc = "returned" /\ inv.thrown = NoErr
    /\ Len(inv.issued) = 1
    /\ inv.issued[1].locals.status = JsUndef
    /\ inv.issued[1].locals.extra = JsUndef
    /\ inv.issued[1].param = JsNum(4)

\* the first PUT of a wiki upsert carried the caller's etag and the service
\* turned it down because the page is at another version
StaleEtagRefused ==
    /\ inv.name = "wiki_create_or_update_page"
    /\ Truthy(inv.args.etag)
    /\ inv.issued # <<>>
    /\ inv.issued[1].st = "conflict"

----------------------------------------------------------------------------
(* C15: optimistic concurrency of wiki_create_or_update_page. When the     *)
(* caller supplies an etag and the page on the service is at another       *)
(* version, the invocation does not overwrite the page: it ends with an    *)
(* error envelope and what the other writer saved is still in place.       *)

C15_StaleEtagNoOverwrite ==
    (StaleEtagRefused /\ inv.pc = "returned") =>
        /\ inv.result.isError
        /\ page.by # "handler"

\* every outbound call and every I/O operation the handler started is over
NoBackgroundWork == Pending(inv.issued) = {} /\ buffered = 0

----------------------------------------------------------------------------
(* C16: no background work outlives an invocation. When a tool's envelope  *)
(* is returned, every call the handler issued has completed and nothing is *)
(* left to be written; when pipelines_download_artifact returns 'Artifact  *)
(* saved to <file>', the artifact is completely in that file.              *)

C16_NoBackgroundWork ==
    inv.pc = "returned" => NoBackgroundWork

----------------------------------------------------------------------------
(* C17: a failed construction is not cached for good. A getWebApiClient    *)
(* call made after a call whose construction failed starts a new           *)
(* construction attempt instead of handing out the stored failure, while   *)
(* the callers that wait on one construction all get that construction's   *)
(* outcome.                                                                *)

C17_FailureNotCached ==
    /\ \A c \in Caller :
          (callers[c].pc = "waiting" /\ callers[c].got.state = "rejected") =>
              callers[c].awaiting.id > callers[c].got.id
    /\ \A c, d \in Caller :
          (callers[c].pc = "waiting" /\ callers[d].pc = "waiting"
           /\ callers[c].awaiting.id = callers[d].awaiting.id) =>
              callers[c].awaiting = callers[d].awaiting

\* the envelope as a function of the invocation alone: its name, its
\* arguments and what the service answered (or threw)
EnvelopeFrom(name, args, issued, thrown) ==
    IF thrown # NoErr THEN Catch(thrown)
    ELSE IF Branch(name) = "default" THEN UnknownTool(name)
    ELSE Continue(Branch(name), Locals(Branch(name), args), issued).env

\* a step of the created server leaves the process-level variables alone,
\* but for the first setting of the connection handle
ProcessStateKept ==
    server = "created" =>
        /\ orgName' = orgName
        /\ config' = config
        /\ server' = server
        /\ clientPromise # NoPromise =>
              clientPromise' = clientPromise /\ constructions' = constructions

----------------------------------------------------------------------------
(* C18: no cross-invocation state. Handling an invocation, successful or   *)
(* failing, changes no process-level variable other than the connection    *)
(* handle, which is set once and never reassigned; the organization name   *)
(* and the configuration stay as createServer left them, and the envelope  *)
(* of an invocation is determined by its name, its arguments and the       *)
(* service's responses, whatever was handled before it.                    *)

C18_NoCrossInvocationState ==
    /\ [](inv.pc = "returned" =>
            inv.result = EnvelopeFrom(inv.name, inv.args, inv.issued, inv.thrown))
    /\ [][ProcessStateKept]_vars

\* a second invocation succeeds on the handle made for the first, which failed
C18_Witness ==
    /\ served = 1 /\ prev = "caught"
    /\ inv.pc = "returned" /\ inv.thrown = NoErr /\ ~inv.result.isError
    /\ inv.name = "core_list_projects"
    /\ clientPromise.state = "fulfilled" /\ clientPromise.id = 1
    /\ constructions = 1
    /\ orgName = "org1"

\* the requests an invocation sent to the service so far; reading the body of
\* a response that came as a stream is part of the request that got it
Requests(issued) == {k \in DOMAIN issued : issued[k].op \notin {"stream:toString", "stream:pipe",
                                                                "stream:collect"}}

\* an invocation of a tool that is not a bulk tool, with arguments the tool
\* accepts, has returned without anything having failed on the way
NonBulkReturned ==
    /\ inv.pc = "returned"
    /\ inv.name \in CatalogNames \ BulkBranches
    /\ inv.thrown = NoErr
    /\ inv.name = "repo_list_pull_requests_by_repo_or_project" =>
          Truthy(inv.args.repositoryId) \/ Truthy(inv.args.project)

----------------------------------------------------------------------------
(* C19: one downstream call per non-bulk invocation. For every catalog     *)
(* tool other than the four bulk tools, an invocation with well-formed     *)
(* arguments issues exactly one request to the external service.           *)

----------------------------------------------------------------------------
(* C20 *)

Sextet(c) == (CHOOSE i \in 1 .. 64 : Base64Chars[i] = c) - 1

\* the bytes a base64 text stands for, read four characters at a time
RECURSIVE Base64Decode(_)
Base64Decode(cs) ==
    IF Len(cs) < 4 THEN <<>>
    ELSE LET b1 == Sextet(cs[1]) * 4 + Sextet(cs[2]) \div 16
             rest == Base64Decode(SubSeq(cs, 5, Len(cs)))
         IN  IF cs[3] = "=" THEN <<b1>>
             ELSE LET b2 == (Sextet(cs[2]) % 16) * 16 + Sextet(cs[3]) \div 4
                  IN  IF cs[4] = "=" THEN <<b1, b2>>
                      ELSE <<b1, b2, (Sextet(cs[3]) % 4) * 64 + Sextet(cs[4])>> \o rest

\* the string a UTF-8 byte sequence stands for
RECURSIVE Utf8Decode(_)
Utf8Decode(bytes) ==
    CASE bytes = <<>> -> <<>>
      [] Len(bytes) >= 1 /\ bytes[1] = 97 -> <<"a">> \o Utf8Decode(Tail(bytes))
      [] Len(bytes) >= 1 /\ bytes[1] = 58 -> <<":">> \o Utf8Decode(Tail(bytes))
      [] Len(bytes) >= 2 /\ SubSeq(bytes, 1, 2) = <<195, 169>> ->
            <<"U+00E9">> \o Utf8Decode(SubSeq(bytes, 3, Len(bytes)))
      [] Len(bytes) >= 3 /\ SubSeq(bytes, 1, 3) = <<239, 191, 189>> ->
            <<"U+FFFD">> \o Utf8Decode(SubSeq(bytes, 4, Len(bytes)))
      [] OTHER -> <<"U+FFFD">> \o Utf8Decode(Tail(bytes))

Tokens == SeqsUpTo(CodeUnits, MaxPatLen)

HeaderDecodesTo(h, str) ==
    /\ h # <<>>
    /\ h[1] = "Basic "
    /\ Len(h) % 4 = 1
    /\ Utf8Decode(Base64Decode(Tail(h))) = str

\* no surrogate code unit stands without its other half
WellFormedUtf16(str) == \A i \in 1 .. Len(str) : str[i] # "U+D800"

\* C20 as stated: for every token, the header is "Basic " followed by a
\* base64 payload that decodes to ":" followed by the token, and no other
\* token has the same header
C20_RoundTrip ==
    header # <<>> =>
        /\ HeaderDecodesTo(header, <<":">> \o pat)
        /\ \A other \in Tokens : other # pat => getPatAuthHeader(other) # header

\* C20 amended: for every token that is well-formed UTF-16, the header is
\* "Basic " followed by a base64 payload that decodes to ":" followed by the
\* token, and no other well-formed token has the same header
C20_RoundTripWellFormed ==
    (header # <<>> /\ WellFormedUtf16(pat)) =>
        /\ HeaderDecodesTo(header, <<":">> \o pat)
        /\ \A other \in Tokens :
              (WellFormedUtf16(other) /\ other # pat) => getPatAuthHeader(other) # header

\* the header of the token "a" followed by U+00E9 has been computed, with
\* its padded payload
C20_Witness ==
    /\ pat = <<"a", "U+00E9">>
    /\ header = <<"Basic ", "O", "m", "H", "D", "q", "Q", "=", "=">>


----------------------------------------------------------------------------
(* C21 *)

Contains(lines, text) == \E i \in 1 .. Len(lines) : lines[i] = text

RequiredScopes ==
    {"Code (Read & Write)", "Work Items (Read & Write)", "Build (Read & Execute)",
     "Project and Team (Read)", "Wiki (Read & Write)", "Test Management (Read & Write)"}

\* the output has the heading of the scopes and, after it, every scope
ListsScopes(lines) ==
    \E h \in 1 .. Len(lines) :
        /\ lines[h] = "Required PAT scopes:"
        /\ \A scope \in RequiredScopes :
              \E i \in (h + 1) .. Len(lines) : lines[i] = "  - " \o scope

UrlAbsent(env) ==
    ~env.AZURE_DEVOPS_ORG_URL.given \/ env.AZURE_DEVOPS_ORG_URL.value = <<"">>
PatAbsent(env) ==
    ~env.AZURE_DEVOPS_PAT.given \/ env.AZURE_DEVOPS_PAT.value = ""

Started == proc.state # "off"

\* the process has ended with a status other than 0, and no server exists
EndedWithoutServer ==
    /\ proc.state = "exited"
    /\ proc.status # 0
    /\ ~proc.connected
    /\ server = "none"

\* a server exists only for a configuration with both settings, and where
\* createServer threw no handler has ever run
CreateServerChecks ==
    /\ server = "created" =>
          config.organizationUrl # <<"">> /\ config.personalAccessToken # ""
    /\ server = "threw" => inv = IdleInv /\ served = 0 /\ listed = <<>>

\* C21 as stated: started with the organization URL or the PAT missing or
\* empty, the process ends with a non-zero status, has printed a
\* diagnostic that lists the required PAT scopes, and no server was created
\* or connected; createServer throws for an empty setting before any handler
\* is registered
C21_FatalConfig ==
    /\ (Started /\ (UrlAbsent(proc.env) \/ PatAbsent(proc.env))) =>
          EndedWithoutServer /\ ListsScopes(proc.printed)
    /\ CreateServerChecks

\* C21 amended: with the organization URL missing or empty the diagnostic
\* names AZURE_DEVOPS_ORG_URL and lists no scopes; with the URL present and
\* the PAT missing or empty the diagnostic names AZURE_DEVOPS_PAT and lists
\* the required PAT scopes; in both cases the process ends with status 1
\* and no server was created or connected; createServer throws for an empty
\* setting before any handler is registered
C21_FatalConfigByVariable ==
    /\ (Started /\ UrlAbsent(proc.env)) =>
          /\ EndedWithoutServer /\ proc.status = 1
          /\ Contains(proc.printed, "Error: AZURE_DEVOPS_ORG_URL environment variable is required")
          /\ ~ListsScopes(proc.printed)
    /\ (Started /\ ~UrlAbsent(proc.env) /\ PatAbsent(proc.env)) =>
          /\ EndedWithoutServer /\ proc.status = 1
          /\ Contains(proc.printed, "Error: AZURE_DEVOPS_PAT environment variable is required")
          /\ ListsScopes(proc.printed)
    /\ CreateServerChecks

\* the process was started with the URL set and the PAT empty, and has ended
C21_Witness ==
    /\ proc.state = "exited"
    /\ proc.env.AZURE_DEVOPS_ORG_URL.given /\ proc.env.AZURE_DEVOPS_ORG_URL.value # <<"">>
    /\ proc.env.AZURE_DEVOPS_PAT.given /\ proc.env.AZURE_DEVOPS_PAT.value = ""
    /\ Len(proc.printed) = 10


----------------------------------------------------------------------------
(* C22 *)

Listed == listed # <<>>

PairwiseDistinct(seq) ==
    \A i, j \in 1 .. Len(seq) : i # j => seq[i] # seq[j]

----------------------------------------------------------------------------
(* C23 *)

\* the last segment of an organization URL that is not empty
OwnOrganization(url) ==
    LET named == {i \in 1 .. Len(url) : url[i] # ""}
    IN  IF named = {} THEN ""
        ELSE url[CHOOSE i \in named : \A j \in named : j <= i]

\* C23: with two servers created for different organization URLs in one
\* process, every request of core_get_identity_ids, search_code,
\* search_wiki and search_workitem handled by a server is addressed to the
\* organization of that server's own organizationUrl
C23_OrganizationIsolation ==
    (server = "created" /\ inv.name \in
            {"core_get_identity_ids", "search_code", "search_wiki", "search_workitem"}) =>
        \A k \in DOMAIN inv.issued :
            inv.issued[k].param = JsStr(OwnOrganization(config.organizationUrl))


----------------------------------------------------------------------------
(* C24 *)

Upsert == inv.name = "wiki_create_or_update_page" /\ inv.pc \in {"calling", "returned"}

Answered(call) == call.st \notin {"pending", "threw"}
OkResponse(call) == Answered(call) /\ HttpOk(call.st)
Puts == {k \in DOMAIN inv.issued : inv.issued[k].op = "fetch:PUT"}

\* PUT first; a GET only after a PUT that was not ok; a second PUT only
\* after a GET that was ok and carried an etag, with If-Match set to it; at
\* most three requests and two PUTs
UpsertProtocol ==
    LET issued == inv.issued
    IN  /\ Len(issued) <= 3
        /\ Cardinality(Puts) <= 2
        /\ Len(issued) >= 1 => issued[1].op = "fetch:PUT"
        /\ Len(issued) >= 2 =>
              /\ issued[2].op = "fetch:GET"
              /\ Answered(issued[1]) /\ ~HttpOk(issued[1].st)
        /\ Len(issued) >= 3 =>
              /\ issued[3].op = "fetch:PUT"
              /\ OkResponse(issued[2])
              /\ \E v \in 1 .. (MaxVersion + 1) :
                    /\ issued[2].st = "v" \o ToString(v)
                    /\ issued[3].param = JsStr("v" \o ToString(v))

\* the text of the response to the first PUT
FirstPutText == "body(" \o inv.issued[1].st \o ")"

\* a non-error envelope exactly when a PUT was ok, and otherwise the error
\* envelope with the text of the first PUT's response
UpsertOutcome ==
    /\ ~inv.result.isError <=> \E k \in Puts : OkResponse(inv.issued[k])
    /\ inv.result.isError =>
          inv.result = [kind |-> "envelope", isError |-> TRUE, text |-> FirstPutText]

\* C24 as stated: the protocol of the requests, and for every invocation
\* that has returned a non-error envelope if and only if a PUT was ok, else
\* an error envelope with the first PUT's response text
C24_UpsertProtocol ==
    Upsert => /\ UpsertProtocol
              /\ inv.pc = "returned" => UpsertOutcome

\* a request threw, or a PUT was answered ok with a body that is not JSON
Disturbed ==
    \/ \E k \in DOMAIN inv.issued : inv.issued[k].st = "threw"
    \/ \E k \in Puts : OkResponse(inv.issued[k]) /\ ~JsonBody(inv.issued[k].st)

\* C24 amended: the protocol of the requests always; when no request throws
\* and every ok PUT has a JSON body, a non-error envelope if and only if a
\* PUT was ok, else an error envelope with the first PUT's response text;
\* when a request throws or an ok PUT has a body that is not JSON, the
\* error envelope of the catch block with the message of what was thrown
C24_UpsertProtocolAnswered ==
    Upsert => /\ UpsertProtocol
              /\ (inv.pc = "returned" /\ ~Disturbed) => UpsertOutcome
              /\ (inv.pc = "returned" /\ Disturbed) =>
                    /\ inv.thrown # NoErr
                    /\ inv.result.isError
                    /\ inv.thrown.isErrorObject =>
                          inv.result.text = "Error: " \o inv.thrown.message

\* the first PUT was refused, the GET gave an etag, and the second PUT,
\* sent with that etag, was ok: three requests and a non-error envelope
C24_Witness ==
    /\ Upsert /\ inv.pc = "returned"
    /\ Len(inv.issued) = 3
    /\ inv.issued[1].st = "conflict"
    /\ inv.issued[3].st = "ok-json"
    /\ ~inv.result.isError


----------------------------------------------------------------------------
(* C25 *)

CreateBranch == inv.name = "repo_create_branch" /\ inv.pc \in {"calling", "returned"}

Lookups == {k \in DOMAIN inv.issued : inv.issued[k].op = "getRefs"}
Updates == {k \in DOMAIN inv.issued : inv.issued[k].op = "updateRefs"}

\* the source branch: sourceBranchName, 'main' when it is absent
SourceOf(args) ==
    IF args.sourceBranchName.t = "undefined" THEN "main" ELSE args.sourceBranchName.s

\* the refs of an answer that have exactly this name and an object id
ExactRefs(refs, name) ==
    {i \in 1 .. Len(refs) : refs[i].name = name /\ refs[i].objectId # ""}

----------------------------------------------------------------------------
(* C26 *)

\* an unlink whose lookup of the source work item was answered
UnlinkLookedUp ==
    /\ inv.name = "wit_work_item_unlink"
    /\ inv.pc \in {"calling", "returned"}
    /\ Len(inv.issued) >= 1
    /\ inv.issued[1].st \notin {"pending", "threw"}

Occurs(part, text) ==
    \E i \in 1 .. (Len(text) + 1) : \E j \in (i - 1) .. Len(text) : SubSeq(text, i, j) = part

\* the positions of the relations to the target whose type contains linkType
Matching(relations, args) ==
    {i \in 1 .. Len(relations) :
        /\ relations[i].url[Len(relations[i].url)] = ToString(args.targetId.n)
        /\ Occurs(args.linkType.chars, relations[i].rel)}

RelationUpdates == {k \in DOMAIN inv.issued : inv.issued[k].op = "updateWorkItem"}

\* 'Link not found' and no update without a matching relation; otherwise
\* one update, which removes the first matching relation by its index
UnlinkRemovesFirst ==
    LET relations == RelationsAnswer(inv.issued[1].st, inv.args)
        matching == Matching(relations, inv.args)
    IN  /\ matching = {} =>
              /\ RelationUpdates = {}
              /\ inv.pc = "returned"
              /\ inv.result = [kind |-> "envelope", isError |-> TRUE, text |-> "Link not found"]
        /\ matching # {} =>
              /\ Cardinality(RelationUpdates) = 1
              /\ \A k \in RelationUpdates :
                    inv.issued[k].param =
                        JsStr("/relations/" \o ToString(
                            (CHOOSE i \in matching : \A j \in matching : i <= j) - 1))

\* the source work item has the one relation that wit_work_items_link adds
\* for the same target and link type, and the unlink removes it
LinkedIsUnlinked ==
    inv.issued[1].st = "rel-linked" =>
        /\ Cardinality(RelationUpdates) = 1
        /\ \A k \in RelationUpdates : inv.issued[k].param = JsStr("/relations/0")

\* C26: an unlink with targetId and linkType given answers 'Link not found'
\* and issues no update when no relation of the source work item has a URL
\* ending with '/<targetId>' and a type containing linkType, and otherwise
\* issues exactly one update, removing the first such relation by index; and
\* a link created by wit_work_items_link with the same target and link type
\* is removed
C26_Unlink ==
    (UnlinkLookedUp /\ inv.args.targetId.t = "number" /\ inv.args.linkType.given) =>
        UnlinkRemovesFirst /\ LinkedIsUnlinked


----------------------------------------------------------------------------
(* C27 *)

ListPullRequests ==
    /\ inv.name = "repo_list_pull_requests_by_repo_or_project"
    /\ inv.pc \in {"calling", "returned"}

Supplied(v) == v.t # "undefined"

RepositoryQueries == {k \in DOMAIN inv.issued : inv.issued[k].op = "getPullRequests"}
ProjectQueries == {k \in DOMAIN inv.issued : inv.issued[k].op = "getPullRequestsByProject"}
Refusal == [kind |-> "envelope", isError |-> TRUE,
            text |-> "Either repositoryId or project required"]

\* the outcomes of an invocation
ByRepository == Cardinality(RepositoryQueries) = 1 /\ ProjectQueries = {} /\ inv.result # Refusal
ByProject == Cardinality(ProjectQueries) = 1 /\ RepositoryQueries = {} /\ inv.result # Refusal
Refused ==
    /\ RepositoryQueries = {} /\ ProjectQueries = {}
    /\ inv.pc = "returned" /\ inv.result = Refusal
\* connection.getGitApi() rejected: the catch block answered, no query
NoGitApi ==
    /\ inv.issued = <<>>
    /\ inv.pc = "returned" /\ inv.thrown # NoErr
    /\ inv.result.isError /\ inv.result # Refusal

Outcomes(among) ==
    {o \in among : \/ o = "repository" /\ ByRepository
                   \/ o = "project" /\ ByProject
                   \/ o = "refused" /\ Refused
                   \/ o = "no-git-api" /\ NoGitApi}

\* C27: with repositoryId the repository query is used, also when project
\* is given too; with project alone the project query; with neither the
\* error envelope 'Either repositoryId or project required' and no query;
\* exactly one of the three outcomes occurs
C27_PullRequestRouting ==
    ListPullRequests =>
        LET r == Supplied(inv.args.repositoryId)
            p == Supplied(inv.args.project)
        IN  /\ r => ByRepository
            /\ (~r /\ p) => ByProject
            /\ (~r /\ ~p) => Refused
            /\ Cardinality(Outcomes({"repository", "project", "refused"})) = 1

\* C27 amended: once the Git client is obtained, a non-empty repositoryId
\* gives the repository query (also with a project), else a non-empty
\* project gives the project query, else the error envelope 'Either
\* repositoryId or project required' and no query; when the Git client is
\* not obtained the catch block answers and no query is issued; exactly one
\* of the four outcomes occurs
C27_PullRequestRoutingObtained ==
    ListPullRequests =>
        LET r == Truthy(inv.args.repositoryId)
            p == Truthy(inv.args.project)
        IN  /\ ~NoGitApi =>
                  /\ r => ByRepository
                  /\ (~r /\ p) => ByProject
                  /\ (~r /\ ~p) => Refused
            /\ Cardinality(Outcomes({"repository", "project", "refused", "no-git-api"})) = 1

\* both repositoryId and project were given and the repository query answered
C27_Witness ==
    /\ ListPullRequests /\ inv.pc = "returned"
    /\ Truthy(inv.args.repositoryId) /\ Truthy(inv.args.project)
    /\ Cardinality(RepositoryQueries) = 1
    /\ ~inv.result.isError


----------------------------------------------------------------------------
(* C28 *)

ListedBranches ==
    /\ inv.name = "repo_list_branches_by_repo"
    /\ inv.pc = "returned" /\ Len(inv.issued) = 1
    /\ inv.issued[1].st \in FetchedRefTags
    /\ inv.args.top.t \in {"undefined", "number"}

ListedRepos ==
    /\ inv.name = "repo_list_repos_by_project"
    /\ inv.pc = "returned" /\ Len(inv.issued) = 1
    /\ inv.issued[1].st \in FetchedListTags

\* the first n elements of a list, all of them when it has fewer
FirstOf(l, n) == [i \in 1 .. (IF n < Len(l) THEN n ELSE Len(l)) |-> l[i]]

\* the elements at the 0-based positions from .. to of a list
Entries(l, from, to) ==
    LET at == {i \in 1 .. Len(l) : from <= i - 1 /\ i - 1 <= to}
    IN  [k \in 1 .. Cardinality(at) |->
            l[CHOOSE i \in at : Cardinality({j \in at : j < i}) = k - 1]]

\* C28: for every top, repo_list_branches_by_repo returns at most top
\* entries (100 when top is absent; none when top is below 1), the first
\* ones in fetched order of
\* the refs named 'refs/heads/...' with that prefix removed;
\* repo_list_repos_by_project returns the entries skip .. skip+top-1
\* (defaults 0 and 100) of the name-filtered list
C28_Pagination ==
    /\ ListedBranches =>
          LET top == IF inv.args.top.t = "undefined" THEN 100 ELSE inv.args.top.n
              heads == HeadNames(FetchedRefs(inv.issued[1].st))
          IN  \E returned \in SeqsUpTo({SubSeq(n, 3, Len(n)) : n \in RefNames}, MaxFetched) :
                /\ inv.result = Envelope(FALSE, Stringify(NamesTag(returned)))
                /\ Len(returned) <= (IF top < 0 THEN 0 ELSE top)
                /\ returned = FirstOf(heads, top)
    /\ ListedRepos =>
          LET top == IF inv.args.top.t = "undefined" THEN 100 ELSE inv.args.top.n
              skip == IF inv.args.skip.t = "undefined" THEN 0 ELSE inv.args.skip.n
              repos == Filtered(FetchedList(inv.issued[1].st), inv.args.repoNameFilter)
          IN  inv.result = Envelope(FALSE, Stringify(ListTag(Entries(repos, skip, skip + top - 1))))


----------------------------------------------------------------------------
(* C29 *)

\* the string keys of the enum object that equal the string but for case
KeysMatching(enumObject, cs) ==
    {i \in DOMAIN enumObject :
        /\ enumObject[i].value.t = "number"
        /\ ToLowerCase(enumObject[i].key) = ToLowerCase(cs)}

Recognized(enumObject, cs) == cs # <<>> /\ KeysMatching(enumObject, cs) # {}

\* the values of the recognized strings of a list, in the order of the list
RECURSIVE RecognizedValues(_, _)
RecognizedValues(enumObject, l) ==
    IF l = <<>> THEN <<>>
    ELSE (IF Recognized(enumObject, l[1])
          THEN <<enumObject[CHOOSE i \in KeysMatching(enumObject, l[1]) : TRUE].value>>
          ELSE <<>>)
         \o RecognizedValues(enumObject, Tail(l))

Mapped(fn) == input # <<>> /\ output # <<>> /\ input[1].fn = fn

\* C29: mapStringToEnum returns the numeric value of the string key that
\* equals the string but for case, the value 0 included, and the default
\* for an absent, empty or unrecognized string; mapStringArrayToEnum
\* returns the values of the recognized strings in input order, and the
\* empty list for an absent input
C29_EnumMapping ==
    /\ Mapped("mapStringToEnum") =>
          LET in == input[1]
          IN  IF in.value.given /\ Recognized(in.enumObject, in.value.chars)
              THEN \E i \in KeysMatching(in.enumObject, in.value.chars) :
                      output[1].value = in.enumObject[i].value
              ELSE output[1].value = in.defaultValue
    /\ Mapped("mapStringArrayToEnum") =>
          LET in == input[1]
          IN  output[1].list = (IF in.values.given
                                THEN RecognizedValues(in.enumObject, in.values.list)
                                ELSE <<>>)


----------------------------------------------------------------------------
(* C30 *)

\* C30: encodeFormattedValue returns the value with its HTML entities
\* encoded when the format is Html, and the value unchanged for every
\* other format; an empty value is returned unchanged
C30_EncodeFormatted ==
    Mapped("encodeFormattedValue") =>
        LET value == input[1].value
        IN  IF value.given /\ value.chars # <<>> /\ input[1].format = JsStr("Html")
            THEN output[1] = Chars(ReplaceAngles(value.chars))
            ELSE output[1] = value

====
